---- MODULE Spec2Model ----
(***************************************************************************)
(* Verification model of the backtester core of trading-platform-cpp:      *)
(* Portfolio (backtester/src/portfolio.cpp), Strategy and the condition    *)
(* algebra (strategy_engine/src), the indicator pipeline and the event     *)
(* loop (backtester/src/backtester.cpp).                                   *)
(*                                                                         *)
(* Money and prices are integers in cents, so commission_per_share = 0.01  *)
(* is 1.  Indicator values are exact rationals <<num, den>> with den > 0.  *)
(* Bar indices are 0-based as in the C++ code; the TLA+ sequence holding   *)
(* the candles is 1-based, so candle i of the code is primary_data[i + 1]. *)
(***************************************************************************)
EXTENDS Integers, Sequences, FiniteSets, TLC

VARIABLES
    pc,               \* position of Backtester::run
    strategy_config,  \* input: the JSON strategy description
    db_candles,       \* input: the rows of historical_candles of the primary instrument
    initial_capital_, \* Backtester::initial_capital_
    strategy_,        \* Backtester::strategy_ (the Strategy object, or null)
    primary_data_,    \* Backtester::primary_data_
    indicators_,      \* Backtester::indicators_      (name -> indicator)
    indicator_results_, \* Backtester::indicator_results_ (name -> series)
    portfolio_,       \* Backtester::portfolio_ (the Portfolio object)
    bar,              \* runEventLoop: the loop index i and max_lookback
    visited,          \* the bars handed to Strategy::evaluate, in order: signal, position and portfolio before
    metrics,          \* the BacktestMetrics record of calculateMetrics
    run_result        \* what Backtester::run returned: "none" while running

vars == <<pc, strategy_config, db_candles, initial_capital_, strategy_, primary_data_,
          indicators_, indicator_results_, portfolio_, bar, visited, metrics, run_result>>

-----------------------------------------------------------------------------
(* Bounds of the model *)

\* longest candle series the candle source returns
MaxCandles == 4

-----------------------------------------------------------------------------
(* Generic helpers: std::map, sums, rationals *)

EmptyMap == [x \in {} |-> 0]

Put(m, k, v) == [x \in (DOMAIN m) \cup {k} |-> IF x = k THEN v ELSE m[x]]

Erase(m, k) == [x \in (DOMAIN m) \ {k} |-> m[x]]

Abs(x) == IF x < 0 THEN -x ELSE x

Min(S) == CHOOSE x \in S : \A y \in S : x <= y

Max(S) == CHOOSE x \in S : \A y \in S : x >= y

RECURSIVE SumOver(_, _)
\* sum of f[x] over the finite set S
SumOver(S, f) ==
    IF S = {} THEN 0
    ELSE LET x == CHOOSE y \in S : TRUE IN f[x] + SumOver(S \ {x}, f)

RECURSIVE SumSeq(_)
SumSeq(s) == IF s = <<>> THEN 0 ELSE Head(s) + SumSeq(Tail(s))

\* the integer floor of a / b for b > 0 (std::floor of the quotient)
Floor(a, b) == a \div b

\* exact comparison of rationals <<n, d>>, d > 0
RatLT(a, b) == a[1] * b[2] < b[1] * a[2]
RatLE(a, b) == a[1] * b[2] <= b[1] * a[2]
RatEQ(a, b) == a[1] * b[2] = b[1] * a[2]
Rat(n) == <<n, 1>>

-----------------------------------------------------------------------------
(* core/include/datatypes.hpp *)

SignalAction == {"None", "EnterLong", "ExitLong", "EnterShort", "ExitShort"}

\* PositionState::None is the flat state
PositionState == {"None", "Long", "Short"}

Candle(ts, c) == [timestamp |-> ts, open |-> c, high |-> c, low |-> c, close |-> c]

-----------------------------------------------------------------------------
(* backtester/src/portfolio.cpp *)

\* Portfolio::Portfolio
Portfolio(initial_capital) ==
    [initial_capital_     |-> initial_capital,
     cash_                |-> initial_capital,
     positions_           |-> EmptyMap,
     open_positions_info_ |-> EmptyMap,
     equity_curve_        |-> <<>>,
     execution_count_     |-> 0,
     trade_log_           |-> <<>>]

getCash(p) == p.cash_

getPositionQuantity(p, instrument_key) ==
    IF instrument_key \in DOMAIN p.positions_ THEN p.positions_[instrument_key] ELSE 0

\* the mark-to-market loop valuing a short position like a long one
PositionsValue_Unsigned(p, current_prices) ==
    LET priced == (DOMAIN p.positions_) \cap (DOMAIN current_prices)
    IN  SumOver(priced, [k \in priced |-> Abs(p.positions_[k]) * current_prices[k]])

\* the mark-to-market loop of recordTimestampValue: held instruments that
\* have no price contribute nothing
PositionsValue(p, current_prices) ==
    LET priced == (DOMAIN p.positions_) \cap (DOMAIN current_prices)
    IN  SumOver(priced, [k \in priced |-> p.positions_[k] * current_prices[k]])

\* the sample stored without its timestamp
recordTimestampValue_Unstamped(p, timestamp, current_prices) ==
    IF p.equity_curve_ = <<>> \/ p.equity_curve_[Len(p.equity_curve_)].timestamp # timestamp
    THEN LET pos_value == PositionsValue(p, current_prices)
             current_state == [timestamp       |-> 0,
                               cash            |-> p.cash_,
                               positions_value |-> pos_value,
                               total_equity    |-> p.cash_ + pos_value]
         IN  [p EXCEPT !.equity_curve_ = Append(@, current_state)]
    ELSE p

\* a sample appended at every call, also for a timestamp already sampled
recordTimestampValue_EveryCall(p, timestamp, current_prices) ==
    LET pos_value == PositionsValue(p, current_prices)
        current_state == [timestamp       |-> timestamp,
                          cash            |-> p.cash_,
                          positions_value |-> pos_value,
                          total_equity    |-> p.cash_ + pos_value]
    IN  [p EXCEPT !.equity_curve_ = Append(@, current_state)]

\* Portfolio::recordTimestampValue: the portfolio after the call

recordTimestampValue(p, timestamp, current_prices) ==
    IF p.equity_curve_ = <<>> \/ p.equity_curve_[Len(p.equity_curve_)].timestamp # timestamp
    THEN LET pos_value == PositionsValue(p, current_prices)
             current_state == [timestamp       |-> timestamp,
                               cash            |-> p.cash_,
                               positions_value |-> pos_value,
                               total_equity    |-> p.cash_ + pos_value]
         IN  [p EXCEPT !.equity_curve_ = Append(@, current_state)]
    ELSE p

\* the clamp applied to the exit of a long position only
ClampedQuantity_LongOnly(action, quantity, current_qty) ==
    IF action = "ExitLong" /\ quantity > current_qty THEN current_qty
    ELSE quantity

\* the quantity after the clamp of an exit to the open position (lines 100, 118)
ClampedQuantity(action, quantity, current_qty) ==
    IF action = "ExitLong" /\ quantity > current_qty THEN current_qty
    ELSE IF action = "ExitShort" /\ quantity > -current_qty THEN -current_qty
    ELSE quantity

\* the early returns without the one for a purchase against a short position
TradeIgnored_LongAgainstShort(action, quantity, current_qty) ==
    \/ quantity <= 0
    \/ action \notin {"EnterLong", "ExitLong", "EnterShort", "ExitShort"}
    \/ action = "ExitLong"   /\ current_qty <= 0
    \/ action = "EnterShort" /\ current_qty > 0
    \/ action = "ExitShort"  /\ current_qty >= 0

\* the early returns of the switch (lines 78-81, 91, 99, 108, 116, 125-129)
TradeIgnored(action, quantity, current_qty) ==
    \/ quantity <= 0
    \/ action \notin {"EnterLong", "ExitLong", "EnterShort", "ExitShort"}
    \/ action = "EnterLong"  /\ current_qty < 0
    \/ action = "ExitLong"   /\ current_qty <= 0
    \/ action = "EnterShort" /\ current_qty > 0
    \/ action = "ExitShort"  /\ current_qty >= 0

\* position_change of the switch, for the clamped quantity q
PositionChange(action, q) ==
    IF action \in {"EnterLong", "ExitShort"} THEN q ELSE -q

\* the cost with the commission credited on sells
TradeCost_CommissionCredited(action, q, execution_price, commission) ==
    IF action \in {"EnterLong", "ExitShort"}
    THEN -(q * execution_price) - commission
    ELSE (q * execution_price) + commission

\* cost of the switch: the net change in cash
TradeCost(action, q, execution_price, commission) ==
    IF action \in {"EnterLong", "ExitShort"}
    THEN -(q * execution_price) - commission
    ELSE (q * execution_price) - commission

\* the check made on the cash held instead of the cash left
InsufficientCash_CashHeld(cash, cost) == cost < 0 /\ cash < 0

\* the cash check left out
InsufficientCash_Never(cash, cost) == FALSE

\* the check of lines 132-136
InsufficientCash(cash, cost) == cost < 0 /\ cash + cost < 0

\* the round trip with the entry commission left out of pnl
MakeTrade_ExitCommissionOnly(entry_info, instrument_key, timestamp, position_change, execution_price, commission) ==
    LET entry_value  == entry_info.entry_quantity * entry_info.entry_price
        exit_value   == (-position_change) * execution_price
        entry_action == IF entry_info.entry_quantity > 0 THEN "EnterLong" ELSE "EnterShort"
        pnl          == IF entry_action = "EnterLong"
                        THEN exit_value - entry_value - commission
                        ELSE entry_value - exit_value - commission
    IN  [instrument_key |-> instrument_key,
         entry_action   |-> entry_action,
         entry_time     |-> entry_info.entry_time,
         exit_time      |-> timestamp,
         quantity       |-> entry_info.entry_quantity,
         entry_price    |-> entry_info.entry_price,
         exit_price     |-> execution_price,
         commission     |-> entry_info.entry_commission + commission,
         pnl            |-> pnl,
         return_pct     |-> IF entry_value # 0 THEN <<pnl, Abs(entry_value)>> ELSE <<0, 1>>]

\* the round trip stamped with the time of the exit on both ends
MakeTrade_EntryTimeLost(entry_info, instrument_key, timestamp, position_change, execution_price, commission) ==
    LET entry_value      == entry_info.entry_quantity * entry_info.entry_price
        exit_value       == (-position_change) * execution_price
        total_commission == entry_info.entry_commission + commission
        entry_action     == IF entry_info.entry_quantity > 0 THEN "EnterLong" ELSE "EnterShort"
        pnl              == IF entry_action = "EnterLong"
                            THEN exit_value - entry_value - total_commission
                            ELSE entry_value - exit_value - total_commission
    IN  [instrument_key |-> instrument_key,
         entry_action   |-> entry_action,
         entry_time     |-> timestamp,
         exit_time      |-> timestamp,
         quantity       |-> entry_info.entry_quantity,
         entry_price    |-> entry_info.entry_price,
         exit_price     |-> execution_price,
         commission     |-> total_commission,
         pnl            |-> pnl,
         return_pct     |-> IF entry_value # 0 THEN <<pnl, Abs(entry_value)>> ELSE <<0, 1>>]

\* the round-trip trade of lines 159-181
MakeTrade(entry_info, instrument_key, timestamp, position_change, execution_price, commission) ==
    LET entry_value      == entry_info.entry_quantity * entry_info.entry_price
        exit_value       == (-position_change) * execution_price
        total_commission == entry_info.entry_commission + commission
        entry_action     == IF entry_info.entry_quantity > 0 THEN "EnterLong" ELSE "EnterShort"
        pnl              == IF entry_action = "EnterLong"
                            THEN exit_value - entry_value - total_commission
                            ELSE entry_value - exit_value - total_commission
    IN  [instrument_key |-> instrument_key,
         entry_action   |-> entry_action,
         entry_time     |-> entry_info.entry_time,
         exit_time      |-> timestamp,
         quantity       |-> entry_info.entry_quantity,
         entry_price    |-> entry_info.entry_price,
         exit_price     |-> execution_price,
         commission     |-> total_commission,
         pnl            |-> pnl,
         return_pct     |-> IF entry_value # 0 THEN <<pnl, Abs(entry_value)>> ELSE <<0, 1>>]

\* recordTrade keeping the open-position record of a closed position: the
\* next entry finds it and does not replace it
recordTrade_RecordKept(p, timestamp, instrument_key, action, quantity, execution_price, commission) ==
    LET current_qty     == getPositionQuantity(p, instrument_key)
        q               == ClampedQuantity(action, quantity, current_qty)
        position_change == PositionChange(action, q)
        cost            == TradeCost(action, q, execution_price, commission)
        is_entry        == action \in {"EnterLong", "EnterShort"} /\ current_qty = 0
        is_exit         == action \in {"ExitLong", "ExitShort"} /\ current_qty + position_change = 0
        new_qty         == current_qty + position_change
        has_info        == instrument_key \in DOMAIN p.open_positions_info_
        logged          == is_exit /\ has_info
        info1           == IF ~is_exit /\ is_entry /\ ~has_info
                           THEN Put(p.open_positions_info_, instrument_key,
                                    [entry_time       |-> timestamp,
                                     entry_price      |-> execution_price,
                                     entry_quantity   |-> position_change,
                                     entry_commission |-> commission])
                           ELSE p.open_positions_info_
    IN  IF TradeIgnored(action, quantity, current_qty) THEN p
        ELSE IF InsufficientCash(p.cash_, cost) THEN p
        ELSE [p EXCEPT
                !.cash_ = @ + cost,
                !.execution_count_ = @ + 1,
                !.trade_log_ = IF logged
                               THEN Append(@, MakeTrade(p.open_positions_info_[instrument_key],
                                                        instrument_key, timestamp,
                                                        position_change, execution_price, commission))
                               ELSE @,
                !.positions_ = IF new_qty = 0 THEN Erase(@, instrument_key)
                               ELSE Put(@, instrument_key, new_qty),
                !.open_positions_info_ = info1]

recordTrade(p, timestamp, instrument_key, action, quantity, execution_price, commission) ==
    LET current_qty     == getPositionQuantity(p, instrument_key)
        q               == ClampedQuantity(action, quantity, current_qty)
        position_change == PositionChange(action, q)
        cost            == TradeCost(action, q, execution_price, commission)
        is_entry        == action \in {"EnterLong", "EnterShort"} /\ current_qty = 0
        is_exit         == action \in {"ExitLong", "ExitShort"} /\ current_qty + position_change = 0
        new_qty         == current_qty + position_change
        has_info        == instrument_key \in DOMAIN p.open_positions_info_
        logged          == is_exit /\ has_info
        info1           == IF logged THEN Erase(p.open_positions_info_, instrument_key)
                           ELSE IF ~is_exit /\ is_entry
                           THEN Put(p.open_positions_info_, instrument_key,
                                    [entry_time       |-> timestamp,
                                     entry_price      |-> execution_price,
                                     entry_quantity   |-> position_change,
                                     entry_commission |-> commission])
                           ELSE p.open_positions_info_
    IN  IF TradeIgnored(action, quantity, current_qty) THEN p
        ELSE IF InsufficientCash(p.cash_, cost) THEN p
        ELSE [p EXCEPT
                !.cash_ = @ + cost,
                !.execution_count_ = @ + 1,
                !.trade_log_ = IF logged
                               THEN Append(@, MakeTrade(p.open_positions_info_[instrument_key],
                                                        instrument_key, timestamp,
                                                        position_change, execution_price, commission))
                               ELSE @,
                !.positions_ = IF new_qty = 0 THEN Erase(@, instrument_key)
                               ELSE Put(@, instrument_key, new_qty),
                !.open_positions_info_ = IF new_qty = 0 THEN Erase(info1, instrument_key)
                                         ELSE info1]

-----------------------------------------------------------------------------
(* Indicator names.  A name string such as "SMA(2)" is the record          *)
(* [base |-> "SMA", digits |-> <<2>>]: the text before the parenthesis and *)
(* the decimal digits between the parentheses.  A string without a         *)
(* parenthesised number has digits = <<>>.                                 *)

Name(base, digits) == [base |-> base, digits |-> digits]

RECURSIVE stoi(_)
\* std::stoi on a string of decimal digits
stoi(digits) ==
    IF digits = <<>> THEN 0
    ELSE 10 * stoi(SubSeq(digits, 1, Len(digits) - 1)) + digits[Len(digits)]

RECURSIVE FormatInt(_)
\* fmt::format("{}", n) for n >= 0: the decimal digits without leading zeros
FormatInt(n) == IF n < 10 THEN <<n>> ELSE Append(FormatInt(n \div 10), n % 10)

-----------------------------------------------------------------------------
(* strategy_engine: the condition algebra *)

\* tolerance of ComparisonOp::EQ, 1e-9 of a currency unit = 1 / EqToleranceInv cents
EqToleranceInv == 10000000

\* get_price_value
get_price_value(candle, field) ==
    CASE field = "Open"  -> candle.open
      [] field = "High"  -> candle.high
      [] field = "Low"   -> candle.low
      [] field = "Close" -> candle.close
      [] OTHER           -> 0

\* the switch (op_) shared by the leaf conditions; lhs and rhs are rationals
Compare(op, lhs, rhs) ==
    CASE op = "GT"  -> RatLT(rhs, lhs)
      [] op = "LT"  -> RatLT(lhs, rhs)
      [] op = "GTE" -> RatLE(rhs, lhs)
      [] op = "LTE" -> RatLE(lhs, rhs)
      [] op = "EQ"  -> LET d   == Abs(lhs[1] * rhs[2] - rhs[1] * lhs[2])
                           den == lhs[2] * rhs[2]
                       IN  d = 0 \/ (d < den /\ d * EqToleranceInv < den)
      [] OTHER      -> FALSE

PriceCondition_evaluate(c, snapshot) ==
    LET candle    == snapshot.current_candle
        lhs_value == Rat(get_price_value(candle, c.field1))
        rhs_value == IF c.compare_to_value THEN c.value
                     ELSE Rat(get_price_value(candle, c.field2))
    IN  Compare(c.op, lhs_value, rhs_value)

IndicatorCondition_evaluate(c, snapshot) ==
    IF c.indicator_name1 \notin DOMAIN snapshot.indicator_values THEN FALSE
    ELSE IF c.compare_to_value
         THEN Compare(c.op, snapshot.indicator_values[c.indicator_name1], c.value)
    ELSE IF c.indicator_name2 \notin DOMAIN snapshot.indicator_values THEN FALSE
    ELSE Compare(c.op, snapshot.indicator_values[c.indicator_name1],
                       snapshot.indicator_values[c.indicator_name2])

\* the comparison taken to hold when the indicator is not in the snapshot
PriceIndicatorCondition_evaluate_AbsentHolds(c, snapshot) ==
    IF c.indicator_name \notin DOMAIN snapshot.indicator_values THEN TRUE
    ELSE Compare(c.op, Rat(get_price_value(snapshot.current_candle, c.price_field)),
                       snapshot.indicator_values[c.indicator_name])

PriceIndicatorCondition_evaluate(c, snapshot) ==
    IF c.indicator_name \notin DOMAIN snapshot.indicator_values THEN FALSE
    ELSE Compare(c.op, Rat(get_price_value(snapshot.current_candle, c.price_field)),
                       snapshot.indicator_values[c.indicator_name])

\* the cross that needs the first indicator strictly on the other side before
IndicatorCrossCondition_evaluate_StrictBefore(c, snapshot) ==
    IF \/ c.indicator1_name \notin DOMAIN snapshot.indicator_values
       \/ c.indicator2_name \notin DOMAIN snapshot.indicator_values
       \/ c.indicator1_name \notin DOMAIN snapshot.indicator_values_prev
       \/ c.indicator2_name \notin DOMAIN snapshot.indicator_values_prev
    THEN FALSE
    ELSE LET val1_now  == snapshot.indicator_values[c.indicator1_name]
             val2_now  == snapshot.indicator_values[c.indicator2_name]
             val1_prev == snapshot.indicator_values_prev[c.indicator1_name]
             val2_prev == snapshot.indicator_values_prev[c.indicator2_name]
         IN  IF c.cross_type = "CrossesAbove"
             THEN RatLT(val1_prev, val2_prev) /\ RatLT(val2_now, val1_now)
             ELSE RatLT(val2_prev, val1_prev) /\ RatLT(val1_now, val2_now)

IndicatorCrossCondition_evaluate(c, snapshot) ==
    IF \/ c.indicator1_name \notin DOMAIN snapshot.indicator_values
       \/ c.indicator2_name \notin DOMAIN snapshot.indicator_values
       \/ c.indicator1_name \notin DOMAIN snapshot.indicator_values_prev
       \/ c.indicator2_name \notin DOMAIN snapshot.indicator_values_prev
    THEN FALSE
    ELSE LET val1_now  == snapshot.indicator_values[c.indicator1_name]
             val2_now  == snapshot.indicator_values[c.indicator2_name]
             val1_prev == snapshot.indicator_values_prev[c.indicator1_name]
             val2_prev == snapshot.indicator_values_prev[c.indicator2_name]
         IN  IF c.cross_type = "CrossesAbove"
             THEN RatLE(val1_prev, val2_prev) /\ RatLT(val2_now, val1_now)
             ELSE RatLE(val2_prev, val1_prev) /\ RatLT(val1_now, val2_now)

RECURSIVE Condition_evaluate(_, _)

\* the AND that stops after its first child
AndCondition_evaluate_FirstChild(c, snapshot) ==
    \A k \in 1..1 : Condition_evaluate(c.conditions[k], snapshot)

AndCondition_evaluate(c, snapshot) ==
    \A k \in 1..Len(c.conditions) : Condition_evaluate(c.conditions[k], snapshot)

OrCondition_evaluate(c, snapshot) ==
    \E k \in 1..Len(c.conditions) : Condition_evaluate(c.conditions[k], snapshot)

\* the virtual call ICondition::evaluate
Condition_evaluate(c, snapshot) ==
    CASE c.type = "Price"          -> PriceCondition_evaluate(c, snapshot)
      [] c.type = "Indicator"      -> IndicatorCondition_evaluate(c, snapshot)
      [] c.type = "PriceIndicator" -> PriceIndicatorCondition_evaluate(c, snapshot)
      [] c.type = "Cross"          -> IndicatorCrossCondition_evaluate(c, snapshot)
      [] c.type = "AND"            -> AndCondition_evaluate(c, snapshot)
      [] c.type = "OR"             -> OrCondition_evaluate(c, snapshot)

-----------------------------------------------------------------------------
(* strategy_engine: Rule and Strategy *)

Rule_evaluate(rule, snapshot) ==
    IF Condition_evaluate(rule.condition_, snapshot) THEN rule.action_ ELSE "None"

\* the entry loop without its break: the last rule that fires decides
EntryAction_LastWins(entry_rules, snapshot) ==
    LET hits == {k \in 1..Len(entry_rules) :
                    Rule_evaluate(entry_rules[k], snapshot) \in {"EnterLong", "EnterShort"}}
    IN  IF hits = {} THEN "None" ELSE Rule_evaluate(entry_rules[Max(hits)], snapshot)

\* the entry loop of Strategy::evaluate: the first rule, in list order,
\* that returns EnterLong or EnterShort
EntryAction(entry_rules, snapshot) ==
    LET hits == {k \in 1..Len(entry_rules) :
                    Rule_evaluate(entry_rules[k], snapshot) \in {"EnterLong", "EnterShort"}}
    IN  IF hits = {} THEN "None" ELSE Rule_evaluate(entry_rules[Min(hits)], snapshot)

\* the exit loop of Strategy::evaluate: the first rule whose action matches
\* the side of the current position
ExitAction(exit_rules, current_position, snapshot) ==
    LET hits == {k \in 1..Len(exit_rules) :
                    LET action == Rule_evaluate(exit_rules[k], snapshot)
                    IN  \/ current_position = "Long"  /\ action = "ExitLong"
                        \/ current_position = "Short" /\ action = "ExitShort"}
    IN  IF hits = {} THEN "None" ELSE Rule_evaluate(exit_rules[Min(hits)], snapshot)

\* the switch with the entries left for a later fill to record
NextPosition_EntryNotCached(current_position, resulting_action) ==
    IF resulting_action \in {"ExitLong", "ExitShort"} THEN "None" ELSE current_position

\* the switch with a cover turning the position around
NextPosition_ReverseOnCover(current_position, resulting_action) ==
    CASE resulting_action \in {"EnterLong", "ExitShort"} -> "Long"
      [] resulting_action = "EnterShort" -> "Short"
      [] resulting_action = "ExitLong" -> "None"
      [] OTHER -> current_position

\* the switch at the end of Strategy::evaluate
NextPosition(current_position, resulting_action) ==
    CASE resulting_action = "EnterLong"  -> "Long"
      [] resulting_action = "EnterShort" -> "Short"
      [] resulting_action \in {"ExitLong", "ExitShort"} -> "None"
      [] OTHER -> current_position

\* the action Strategy::evaluate returns
Strategy_action(s, snapshot) ==
    IF s.current_position_ = "None"
    THEN EntryAction(s.entry_rules_, snapshot)
    ELSE ExitAction(s.exit_rules_, s.current_position_, snapshot)

\* Strategy::evaluate: the returned action and the strategy object after the call
Strategy_evaluate(s, snapshot) ==
    LET resulting_action == Strategy_action(s, snapshot)
    IN  [action   |-> resulting_action,
         strategy |-> [s EXCEPT !.current_position_ =
                                    NextPosition(s.current_position_, resulting_action)]]

-----------------------------------------------------------------------------
(* strategy_engine/src/strategy_factory.cpp: from the JSON description to  *)
(* the Strategy object.  A JSON object is a record; config.contains("k")   *)
(* is "k" \in DOMAIN config.  Invalid stands for a thrown exception.       *)

Invalid == [type |-> "Invalid"]

EmptyName == Name("", <<>>)

\* std::tolower over the spellings the descriptions use
ToLower(str) ==
    CASE str \in {"open", "Open", "OPEN"}     -> "open"
      [] str \in {"high", "High", "HIGH"}     -> "high"
      [] str \in {"low", "Low", "LOW"}        -> "low"
      [] str \in {"close", "Close", "CLOSE"}  -> "close"
      [] str \in {"quantity", "Quantity"}     -> "quantity"
      [] str \in {"capitalbased", "CapitalBased"} -> "capitalbased"
      [] OTHER -> str

stringToAction(action_str) ==
    IF action_str \in SignalAction THEN action_str ELSE "Invalid"

stringToCompOp(op_str) ==
    CASE op_str \in {">", "GT"}   -> "GT"
      [] op_str \in {"<", "LT"}   -> "LT"
      [] op_str \in {">=", "GTE"} -> "GTE"
      [] op_str \in {"<=", "LTE"} -> "LTE"
      [] op_str \in {"==", "EQ"}  -> "EQ"
      [] OTHER -> "Invalid"

stringToPriceField(field_str) ==
    CASE ToLower(field_str) = "open"  -> "Open"
      [] ToLower(field_str) = "high"  -> "High"
      [] ToLower(field_str) = "low"   -> "Low"
      [] ToLower(field_str) = "close" -> "Close"
      [] OTHER -> "Invalid"

stringToSizingMethod(method_str) ==
    CASE ToLower(method_str) = "quantity"     -> "Quantity"
      [] ToLower(method_str) = "capitalbased" -> "CapitalBased"
      [] OTHER -> "Invalid"

Has(config, keys) == keys \subseteq DOMAIN config

RECURSIVE parseCondition(_)
\* StrategyFactory::parseCondition together with the constructors of the
\* condition classes it calls
parseCondition(config) ==
    IF ~Has(config, {"type"}) THEN Invalid
    ELSE CASE config.type = "Price" ->
            IF ~Has(config, {"field1", "op"})
               \/ stringToPriceField(config.field1) = "Invalid"
               \/ stringToCompOp(config.op) = "Invalid" THEN Invalid
            ELSE IF Has(config, {"value"})
            THEN [type |-> "Price", field1 |-> stringToPriceField(config.field1),
                  op |-> stringToCompOp(config.op), compare_to_value |-> TRUE,
                  value |-> Rat(config.value), field2 |-> "Open"]
            ELSE IF Has(config, {"field2"}) /\ stringToPriceField(config.field2) # "Invalid"
            THEN [type |-> "Price", field1 |-> stringToPriceField(config.field1),
                  op |-> stringToCompOp(config.op), compare_to_value |-> FALSE,
                  value |-> Rat(0), field2 |-> stringToPriceField(config.field2)]
            ELSE Invalid
         [] config.type = "Indicator" ->
            IF ~Has(config, {"indicator1", "op"})
               \/ stringToCompOp(config.op) = "Invalid" THEN Invalid
            ELSE IF Has(config, {"value"})
            THEN IF config.indicator1 = EmptyName THEN Invalid
                 ELSE [type |-> "Indicator", indicator_name1 |-> config.indicator1,
                       op |-> stringToCompOp(config.op), compare_to_value |-> TRUE,
                       value |-> Rat(config.value), indicator_name2 |-> EmptyName]
            ELSE IF Has(config, {"indicator2"})
            THEN IF \/ config.indicator1 = EmptyName
                    \/ config.indicator2 = EmptyName
                    \/ config.indicator1 = config.indicator2 THEN Invalid
                 ELSE [type |-> "Indicator", indicator_name1 |-> config.indicator1,
                       op |-> stringToCompOp(config.op), compare_to_value |-> FALSE,
                       value |-> Rat(0), indicator_name2 |-> config.indicator2]
            ELSE Invalid
         [] config.type = "PriceIndicator" ->
            IF ~Has(config, {"price_field", "op", "indicator"})
               \/ stringToPriceField(config.price_field) = "Invalid"
               \/ stringToCompOp(config.op) = "Invalid"
               \/ config.indicator = EmptyName THEN Invalid
            ELSE [type |-> "PriceIndicator",
                  price_field |-> stringToPriceField(config.price_field),
                  op |-> stringToCompOp(config.op), indicator_name |-> config.indicator]
         [] config.type \in {"CrossesAbove", "CrossesBelow"} ->
            IF ~Has(config, {"indicator1", "indicator2"})
               \/ config.indicator1 = EmptyName
               \/ config.indicator2 = EmptyName
               \/ config.indicator1 = config.indicator2 THEN Invalid
            ELSE [type |-> "Cross", indicator1_name |-> config.indicator1,
                  cross_type |-> config.type, indicator2_name |-> config.indicator2]
         [] config.type \in {"AND", "OR"} ->
            IF ~Has(config, {"conditions"}) THEN Invalid
            ELSE IF config.conditions = <<>> THEN Invalid
            ELSE LET sub_conditions == [k \in 1..Len(config.conditions) |->
                                           parseCondition(config.conditions[k])]
                 IN  IF \E k \in 1..Len(sub_conditions) : sub_conditions[k] = Invalid
                     THEN Invalid
                     ELSE [type |-> config.type, conditions |-> sub_conditions]
         [] OTHER -> Invalid

\* the rule parsed without refusing the action None
parseRule_NoneAccepted(config) ==
    IF ~Has(config, {"rule_name", "action", "condition"}) THEN Invalid
    ELSE IF stringToAction(config.action) = "Invalid" THEN Invalid
    ELSE IF parseCondition(config.condition) = Invalid THEN Invalid
    ELSE IF config.rule_name = "" THEN Invalid
    ELSE [type |-> "Rule", name_ |-> config.rule_name,
          condition_ |-> parseCondition(config.condition),
          action_ |-> stringToAction(config.action)]

\* StrategyFactory::parseRule and Rule::Rule
parseRule(config) ==
    IF ~Has(config, {"rule_name", "action", "condition"}) THEN Invalid
    ELSE IF stringToAction(config.action) \in {"Invalid", "None"} THEN Invalid
    ELSE IF parseCondition(config.condition) = Invalid THEN Invalid
    ELSE IF config.rule_name = "" THEN Invalid
    ELSE [type |-> "Rule", name_ |-> config.rule_name,
          condition_ |-> parseCondition(config.condition),
          action_ |-> stringToAction(config.action)]

RECURSIVE collectIndicatorNames(_)
collectIndicatorNames(config) ==
    IF ~Has(config, {"type"}) THEN {}
    ELSE CASE config.type = "Indicator" ->
                (IF Has(config, {"indicator1"}) THEN {config.indicator1} ELSE {})
                \cup (IF Has(config, {"indicator2"}) THEN {config.indicator2} ELSE {})
           [] config.type = "PriceIndicator" ->
                (IF Has(config, {"indicator"}) THEN {config.indicator} ELSE {})
           [] config.type \in {"CrossesAbove", "CrossesBelow"} ->
                (IF Has(config, {"indicator1"}) THEN {config.indicator1} ELSE {})
                \cup (IF Has(config, {"indicator2"}) THEN {config.indicator2} ELSE {})
           [] config.type \in {"AND", "OR"} ->
                IF Has(config, {"conditions"})
                THEN UNION {collectIndicatorNames(config.conditions[k]) :
                                k \in 1..Len(config.conditions)}
                ELSE {}
           [] OTHER -> {}

\* the null unique_ptr<IStrategy>
NullStrategy ==
    [is_null |-> TRUE, name_ |-> "", required_instruments_ |-> <<>>,
     required_timeframes_ |-> <<>>, required_indicator_names_ |-> {},
     entry_rules_ |-> <<>>, exit_rules_ |-> <<>>, current_position_ |-> "None",
     sizing_method_ |-> "Quantity", sizing_value_ |-> 1,
     is_sizing_value_percentage_ |-> FALSE]

\* the position_sizing block of createStrategy (lines 246-283): the parsed
\* sizing, or Invalid
parseSizing(config) ==
    IF ~Has(config, {"position_sizing"})
    THEN [type |-> "Sizing", method |-> "Quantity", value |-> 1, is_percentage |-> FALSE]
    ELSE LET sizing_config == config.position_sizing
             method        == stringToSizingMethod(sizing_config.method)
             is_percentage == IF Has(sizing_config, {"is_percentage"})
                              THEN sizing_config.is_percentage ELSE FALSE
         IN  IF ~Has(sizing_config, {"method", "value"}) THEN Invalid
             ELSE IF method = "Invalid" THEN Invalid
             ELSE IF sizing_config.value <= 0 THEN Invalid
             ELSE IF method = "CapitalBased"
             THEN IF is_percentage /\ sizing_config.value > 100 THEN Invalid
                  ELSE [type |-> "Sizing", method |-> method,
                        value |-> sizing_config.value, is_percentage |-> is_percentage]
             ELSE IF sizing_config.value < 1 THEN Invalid
             ELSE [type |-> "Sizing", method |-> method,
                   value |-> sizing_config.value, is_percentage |-> FALSE]

\* StrategyFactory::createStrategy and Strategy::Strategy
createStrategy(config) ==
    IF ~Has(config, {"strategy_name", "instruments", "timeframes"}) THEN NullStrategy
    ELSE IF config.instruments = <<>> \/ config.timeframes = <<>> THEN NullStrategy
    ELSE IF parseSizing(config) = Invalid THEN NullStrategy
    ELSE IF ~Has(config, {"entry_rules", "exit_rules"}) THEN NullStrategy
    ELSE LET entry_rules == [k \in 1..Len(config.entry_rules) |-> parseRule(config.entry_rules[k])]
             exit_rules  == [k \in 1..Len(config.exit_rules) |-> parseRule(config.exit_rules[k])]
             sizing      == parseSizing(config)
             rule_confs  == {config.entry_rules[k] : k \in 1..Len(config.entry_rules)}
                            \cup {config.exit_rules[k] : k \in 1..Len(config.exit_rules)}
             indicator_names == UNION {IF Has(r, {"condition"})
                                       THEN collectIndicatorNames(r.condition) ELSE {} :
                                       r \in rule_confs}
         IN  IF \/ \E k \in 1..Len(entry_rules) : entry_rules[k] = Invalid
                \/ \E k \in 1..Len(exit_rules) : exit_rules[k] = Invalid
             THEN NullStrategy
             ELSE IF config.strategy_name = "" \/ entry_rules = <<>> THEN NullStrategy
             ELSE [is_null |-> FALSE, name_ |-> config.strategy_name,
                   required_instruments_ |-> config.instruments,
                   required_timeframes_ |-> config.timeframes,
                   required_indicator_names_ |-> indicator_names,
                   entry_rules_ |-> entry_rules, exit_rules_ |-> exit_rules,
                   current_position_ |-> "None",
                   sizing_method_ |-> sizing.method, sizing_value_ |-> sizing.value,
                   is_sizing_value_percentage_ |-> sizing.is_percentage]

-----------------------------------------------------------------------------
(* indicators/src: SmaIndicator and RsiIndicator over TA-Lib *)

\* the null unique_ptr<IIndicator>
NullIndicator ==
    [is_null |-> TRUE, kind |-> "", period_ |-> 0, lookback_ |-> 0,
     name_ |-> EmptyName, results_ |-> <<>>]

\* TA_MA_Lookback(period, TA_MAType_SMA) for 1 <= period <= 100000
TA_MA_Lookback(period) == IF period <= 1 THEN 0 ELSE period - 1

\* TA_RSI_Lookback(period): -1 for a period below 2
TA_RSI_Lookback(period) == IF period < 2 THEN -1 ELSE period

\* SmaIndicator::SmaIndicator, for period > 0
SmaIndicator(period) ==
    [is_null |-> FALSE, kind |-> "SMA", period_ |-> period,
     lookback_ |-> TA_MA_Lookback(period),
     name_ |-> Name("SMA", FormatInt(period)), results_ |-> <<>>]

\* RsiIndicator::RsiIndicator, for a period whose lookback is not negative
RsiIndicator(period) ==
    [is_null |-> FALSE, kind |-> "RSI", period_ |-> period,
     lookback_ |-> TA_RSI_Lookback(period),
     name_ |-> Name("RSI", FormatInt(period)), results_ |-> <<>>]

\* the closing prices handed to TA-Lib
ClosePrices(input) == [k \in 1..Len(input) |-> input[k].close]

\* TA_MA(0, n - 1, close, period, SMA): the mean of each window of period closes
TA_MA(close_prices, period) ==
    [j \in 1..(Len(close_prices) - TA_MA_Lookback(period)) |->
        <<SumSeq(SubSeq(close_prices, j, j + period - 1)), period>>]

RECURSIVE Pow(_, _)
Pow(b, e) == IF e = 0 THEN 1 ELSE b * Pow(b, e - 1)

Gain(close_prices, t) ==
    IF close_prices[t + 1] > close_prices[t] THEN close_prices[t + 1] - close_prices[t] ELSE 0

Loss(close_prices, t) ==
    IF close_prices[t + 1] < close_prices[t] THEN close_prices[t] - close_prices[t + 1] ELSE 0

RECURSIVE WilderSums(_, _, _)
\* Wilder's smoothed gain and loss behind output j of TA_RSI, both scaled by
\* period^j: avg_j = (avg_(j-1) * (period - 1) + current) / period
WilderSums(close_prices, period, j) ==
    IF j = 1
    THEN [gain |-> SumSeq([t \in 1..period |-> Gain(close_prices, t)]),
          loss |-> SumSeq([t \in 1..period |-> Loss(close_prices, t)])]
    ELSE LET prev == WilderSums(close_prices, period, j - 1)
             t    == period + j - 1
         IN  [gain |-> prev.gain * (period - 1) + Gain(close_prices, t) * Pow(period, j - 1),
              loss |-> prev.loss * (period - 1) + Loss(close_prices, t) * Pow(period, j - 1)]

\* TA_RSI(0, n - 1, close, period): 100 * gain / (gain + loss), 0 when both are 0
TA_RSI(close_prices, period) ==
    [j \in 1..(Len(close_prices) - period) |->
        LET w == WilderSums(close_prices, period, j)
        IN  IF w.gain + w.loss = 0 THEN <<0, 1>> ELSE <<100 * w.gain, w.gain + w.loss>>]

\* SmaIndicator::calculate / RsiIndicator::calculate: the indicator with its
\* results_; ret_code is what the TA-Lib call returns, and any code other
\* than TA_SUCCESS clears the results before the normal return
Indicator_calculate(indicator, input, ret_code) ==
    IF Len(input) <= indicator.lookback_ THEN [indicator EXCEPT !.results_ = <<>>]
    ELSE IF ret_code # "TA_SUCCESS" THEN [indicator EXCEPT !.results_ = <<>>]
    ELSE IF indicator.kind = "SMA"
    THEN [indicator EXCEPT !.results_ = TA_MA(ClosePrices(input), indicator.period_)]
    ELSE [indicator EXCEPT !.results_ = TA_RSI(ClosePrices(input), indicator.period_)]

-----------------------------------------------------------------------------
(* backtester/src/backtester.cpp *)

\* commission_per_share = 0.01, in cents
CommissionPerShare == 1

\* parseIndicatorString: <<base, period>>, period -1 when the string is not
\* of the form BASE(digits)
parseIndicatorString(indicator_str) ==
    IF indicator_str.base # "" /\ indicator_str.digits # <<>>
    THEN <<indicator_str.base, stoi(indicator_str.digits)>>
    ELSE <<indicator_str.base, -1>>

\* Backtester::createIndicator: status "ok" with the indicator, "null" for a
\* nullptr, "throw" when the indicator's constructor throws
createIndicator(name) ==
    LET parsed    == parseIndicatorString(name)
        base_name == parsed[1]
        period    == parsed[2]
    IN  IF base_name = "SMA"
        THEN IF period <= 0 THEN [status |-> "null", indicator |-> NullIndicator]
             ELSE [status |-> "ok", indicator |-> SmaIndicator(period)]
        ELSE IF base_name = "RSI"
        THEN IF period <= 0 THEN [status |-> "null", indicator |-> NullIndicator]
             ELSE IF TA_RSI_Lookback(period) < 0
             THEN [status |-> "throw", indicator |-> NullIndicator]
             ELSE [status |-> "ok", indicator |-> RsiIndicator(period)]
        ELSE [status |-> "null", indicator |-> NullIndicator]

\* the iteration without the check of the candle count against the lookback
CalculateOne_NoDataCheck(st, name, primary_data, ta_failures) ==
    LET created   == createIndicator(name)
        ret_code  == IF created.indicator.name_ \in ta_failures
                     THEN "TA_INTERNAL_ERROR" ELSE "TA_SUCCESS"
        indicator == Indicator_calculate(created.indicator, primary_data, ret_code)
        stored    == [st EXCEPT
                        !.results    = Put(@, indicator.name_, indicator.results_),
                        !.indicators = Put(@, indicator.name_, indicator)]
    IN  IF created.status = "throw" THEN [st EXCEPT !.status = "throw"]
        ELSE IF created.status = "null" THEN [st EXCEPT !.status = "false"]
        ELSE IF name \in DOMAIN stored.indicators THEN stored
        ELSE [stored EXCEPT !.deref_null = TRUE,
                            !.indicators = Put(@, name, NullIndicator)]

\* one iteration of the loop of createAndCalculateIndicators (lines 225-261)
\* on the state st = [status, deref_null, indicators, results]; ta_failures
\* are the names of the indicators whose TA-Lib call does not succeed
CalculateOne(st, name, primary_data, ta_failures) ==
    LET created   == createIndicator(name)
        ret_code  == IF created.indicator.name_ \in ta_failures
                     THEN "TA_INTERNAL_ERROR" ELSE "TA_SUCCESS"
        indicator == Indicator_calculate(created.indicator, primary_data, ret_code)
        stored    == [st EXCEPT
                        !.results    = Put(@, indicator.name_, indicator.results_),
                        !.indicators = Put(@, indicator.name_, indicator)]
    IN  IF created.status = "throw" THEN [st EXCEPT !.status = "throw"]
        ELSE IF created.status = "null" THEN [st EXCEPT !.status = "false"]
        ELSE IF Len(primary_data) <= created.indicator.lookback_
        THEN [st EXCEPT !.status = "false"]
        ELSE IF name \in DOMAIN stored.indicators THEN stored
        \* indicators_[name] inserts a null pointer under the required name
        \* and the log statement dereferences it
        ELSE [stored EXCEPT !.deref_null = TRUE,
                            !.indicators = Put(@, name, NullIndicator)]

RECURSIVE CalculateAll(_, _, _, _)
\* the loop over required_names; it stops at the first failure
CalculateAll(st, names, primary_data, ta_failures) ==
    IF names = <<>> \/ st.status # "ok" THEN st
    ELSE CalculateAll(CalculateOne(st, Head(names), primary_data, ta_failures),
                      Tail(names), primary_data, ta_failures)

\* the loop started at the first candle
MaxLookback_Zero(indicators) == 0

\* the maximum lookback of lines 275-280
MaxLookback(indicators) ==
    Max({0} \cup {indicators[n].lookback_ : n \in {m \in DOMAIN indicators : ~indicators[m].is_null}})

\* the values of one indicator map of the snapshot at bar i (lines 304-327)
SnapshotValues(indicators, indicator_results, i) ==
    LET ready == {n \in DOMAIN indicators :
                    /\ ~indicators[n].is_null
                    /\ n \in DOMAIN indicator_results
                    /\ i - indicators[n].lookback_ >= 0
                    /\ i - indicators[n].lookback_ < Len(indicator_results[n])}
    IN  [n \in ready |-> indicator_results[n][i - indicators[n].lookback_ + 1]]

\* the MarketDataSnapshot runEventLoop builds for bar i (lines 297-327);
\* nothing is ever stored in indicator_values_prev
BuildSnapshot(primary_data, indicators, indicator_results, i) ==
    [current_time          |-> primary_data[i + 1].timestamp,
     current_candle        |-> primary_data[i + 1],
     indicator_values      |-> SnapshotValues(indicators, indicator_results, i),
     indicator_values_prev |-> EmptyMap]

\* the sized quantity rounded up instead of down
EntryQuantity_RoundedUp(s, initial_capital, execution_price) ==
    LET sized ==
          IF s.sizing_method_ = "Quantity" THEN s.sizing_value_
          ELSE IF s.sizing_method_ = "CapitalBased"
          THEN LET capital_to_allocate ==
                     IF s.is_sizing_value_percentage_
                     THEN <<initial_capital * s.sizing_value_, 100>>
                     ELSE <<s.sizing_value_, 1>>
               IN  IF execution_price > 0
                   THEN -Floor(-capital_to_allocate[1], capital_to_allocate[2] * execution_price)
                   ELSE 0
          ELSE 0
    IN  IF sized <= 0 THEN 0 ELSE sized

\* the quantity executeSignal sizes for an entry (lines 388-414)
EntryQuantity(s, initial_capital, execution_price) ==
    LET sized ==
          IF s.sizing_method_ = "Quantity" THEN s.sizing_value_
          ELSE IF s.sizing_method_ = "CapitalBased"
          THEN LET capital_to_allocate ==
                     IF s.is_sizing_value_percentage_
                     THEN <<initial_capital * s.sizing_value_, 100>>
                     ELSE <<s.sizing_value_, 1>>
               IN  IF execution_price > 0
                   THEN Floor(capital_to_allocate[1], capital_to_allocate[2] * execution_price)
                   ELSE 0
          ELSE 0
    IN  IF sized <= 0 THEN 0 ELSE sized

\* quantity_to_trade without the check that the position is flat
QuantityToTrade_EntryNotGated(s, initial_capital, current_position, execution_price, signal) ==
    IF signal \in {"EnterLong", "EnterShort"}
    THEN EntryQuantity(s, initial_capital, execution_price)
    ELSE IF signal = "ExitLong"
    THEN IF current_position > 0 THEN current_position ELSE 0
    ELSE IF signal = "ExitShort"
    THEN IF current_position < 0 THEN -current_position ELSE 0
    ELSE 0

\* quantity_to_trade with exits of one share, whatever the position
QuantityToTrade_ExitOneShare(s, initial_capital, current_position, execution_price, signal) ==
    IF signal \in {"EnterLong", "EnterShort"}
    THEN IF current_position # 0 THEN 0
         ELSE EntryQuantity(s, initial_capital, execution_price)
    ELSE IF signal = "ExitLong"
    THEN IF current_position > 0 THEN 1 ELSE 0
    ELSE IF signal = "ExitShort"
    THEN IF current_position < 0 THEN 1 ELSE 0
    ELSE 0

\* quantity_to_trade of executeSignal; 0 when the signal is ignored
QuantityToTrade(s, initial_capital, current_position, execution_price, signal) ==
    IF signal \in {"EnterLong", "EnterShort"}
    THEN IF current_position # 0 THEN 0
         ELSE EntryQuantity(s, initial_capital, execution_price)
    ELSE IF signal = "ExitLong"
    THEN IF current_position > 0 THEN current_position ELSE 0
    ELSE IF signal = "ExitShort"
    THEN IF current_position < 0 THEN -current_position ELSE 0
    ELSE 0

\* Backtester::executeSignal: the portfolio after the call
executeSignal(p, s, initial_capital, instrument_key, timestamp, current_candle, signal) ==
    LET current_position  == getPositionQuantity(p, instrument_key)
        execution_price   == current_candle.close
        quantity_to_trade == QuantityToTrade(s, initial_capital, current_position,
                                             execution_price, signal)
        commission        == CommissionPerShare * quantity_to_trade
    IN  IF quantity_to_trade > 0
        THEN recordTrade(p, timestamp, instrument_key, signal, quantity_to_trade,
                         execution_price, commission)
        ELSE p

\* the equity sample taken before the signal is executed
ExecuteAndRecord_SampleFirst(p, s, initial_capital, instrument_key, current_candle, signal) ==
    LET sampled == recordTimestampValue(p, current_candle.timestamp,
                                        [k \in {instrument_key} |-> current_candle.close])
    IN  IF signal # "None"
        THEN executeSignal(sampled, s, initial_capital, instrument_key,
                           current_candle.timestamp, current_candle, signal)
        ELSE sampled

\* steps 3 and 4 of one iteration of runEventLoop (lines 340-351): execute
\* the signal, then record the equity sample
ExecuteAndRecord(p, s, initial_capital, instrument_key, current_candle, signal) ==
    LET traded == IF signal # "None"
                  THEN executeSignal(p, s, initial_capital, instrument_key,
                                     current_candle.timestamp, current_candle, signal)
                  ELSE p
    IN  recordTimestampValue(traded, current_candle.timestamp,
                             [k \in {instrument_key} |-> current_candle.close])


\* winning trades, gross profit and gross loss of lines 485-497
WinningTrades(trade_log) == {k \in 1..Len(trade_log) : trade_log[k].pnl > 0}

LosingPnlTrades(trade_log) == {k \in 1..Len(trade_log) : trade_log[k].pnl < 0}

PnlSum(trade_log, ks) == SumOver(ks, [k \in ks |-> trade_log[k].pnl])

\* the BacktestMetrics before calculateMetrics has filled it
NoMetrics ==
    [calculated |-> FALSE, total_executions |-> 0, total_pnl |-> 0,
     total_return_pct |-> <<0, 1>>, round_trip_trades |-> 0, win_rate |-> <<0, 1>>,
     avg_win_pnl |-> <<0, 1>>, avg_loss_pnl |-> <<0, 1>>]

\* Backtester::calculateMetrics (lines 451-517); with fewer than two equity
\* samples it returns before any metric is derived
calculateMetrics(p, initial_capital) ==
    IF Len(p.equity_curve_) < 2 THEN NoMetrics
    ELSE LET final_equity   == p.equity_curve_[Len(p.equity_curve_)].total_equity
             total_pnl      == final_equity - initial_capital
             round_trips    == Len(p.trade_log_)
             winning_trades == Cardinality(WinningTrades(p.trade_log_))
             gross_profit   == PnlSum(p.trade_log_, WinningTrades(p.trade_log_))
             gross_loss     == PnlSum(p.trade_log_, LosingPnlTrades(p.trade_log_))
             losing_trades  == round_trips - winning_trades
         IN  [calculated        |-> TRUE,
              total_executions  |-> p.execution_count_,
              total_pnl         |-> total_pnl,
              total_return_pct  |-> IF initial_capital > 0 THEN <<total_pnl, initial_capital>>
                                    ELSE <<0, 1>>,
              round_trip_trades |-> round_trips,
              win_rate          |-> IF round_trips > 0 THEN <<winning_trades, round_trips>>
                                    ELSE <<0, 1>>,
              avg_win_pnl       |-> IF winning_trades > 0 THEN <<gross_profit, winning_trades>>
                                    ELSE <<0, 1>>,
              avg_loss_pnl      |-> IF losing_trades > 0 THEN <<gross_loss, losing_trades>>
                                    ELSE <<0, 1>>]

-----------------------------------------------------------------------------
(* The inputs of a run: strategy descriptions, candle series, capital *)

Sma1  == Name("SMA", <<1>>)
Sma2  == Name("SMA", <<2>>)
Sma3  == Name("SMA", <<3>>)
Sma5  == Name("SMA", <<5>>)
\* the strings "EMA(2)" and "SMA(0)"
Ema2  == Name("EMA", <<2>>)
Sma0  == Name("SMA", <<0>>)
Rsi2  == Name("RSI", <<2>>)
\* the string "SMA(02)"
Sma02 == Name("SMA", <<0, 2>>)

\* std::set<std::string> to vector: the names in lexicographic order
NameOrder == <<Ema2, Rsi2, Sma0, Sma02, Sma1, Sma2, Sma3, Sma5>>

PriceInd(field, op, name) ==
    [type |-> "PriceIndicator", price_field |-> field, op |-> op, indicator |-> name]

PriceVal(field, op, value) == [type |-> "Price", field1 |-> field, op |-> op, value |-> value]

IndVal(name, op, value) == [type |-> "Indicator", indicator1 |-> name, op |-> op, value |-> value]

Cross(type, name1, name2) == [type |-> type, indicator1 |-> name1, indicator2 |-> name2]

RuleConf(rule_name, action, condition) ==
    [rule_name |-> rule_name, action |-> action, condition |-> condition]

\* the entry and exit rule lists of the strategy descriptions
RuleSets ==
    << \* long only, trend following on SMA(2)
       [entry_rules |-> <<RuleConf("long_in", "EnterLong", PriceInd("close", ">", Sma2))>>,
        exit_rules  |-> <<RuleConf("long_out", "ExitLong", PriceInd("close", "<", Sma2))>>],
       \* short only
       [entry_rules |-> <<RuleConf("short_in", "EnterShort", PriceInd("Close", "LT", Sma2))>>,
        exit_rules  |-> <<RuleConf("short_out", "ExitShort", PriceInd("Close", "GT", Sma2))>>],
       \* both sides on prices alone; rules of either side in both lists
       [entry_rules |-> <<RuleConf("stray_exit", "ExitLong", PriceVal("close", ">=", 100)),
                          RuleConf("short_in", "EnterShort", PriceVal("close", ">=", 300)),
                          RuleConf("long_in", "EnterLong", PriceVal("close", ">=", 100))>>,
        exit_rules  |-> <<RuleConf("short_out", "ExitShort", PriceVal("close", "<=", 200)),
                          RuleConf("long_out", "ExitLong", PriceVal("close", ">=", 200))>>],
       \* moving-average cross, indicators of different lookback
       [entry_rules |-> <<RuleConf("cross_up", "EnterLong", Cross("CrossesAbove", Sma1, Sma2))>>,
        exit_rules  |-> <<RuleConf("cross_down", "ExitLong", Cross("CrossesBelow", Sma1, Sma2))>>],
       \* entry condition that stays true, no exit rule
       [entry_rules |-> <<RuleConf("always", "EnterLong", PriceVal("close", ">=", 100))>>,
        exit_rules  |-> <<>>],
       \* composite conditions over RSI(2) and SMA(3)
       [entry_rules |-> <<RuleConf("rsi_in", "EnterLong",
                             [type |-> "OR",
                              conditions |-> <<IndVal(Rsi2, ">", 50),
                                               PriceInd("close", ">", Sma3)>>])>>,
        exit_rules  |-> <<RuleConf("rsi_out", "ExitLong",
                             [type |-> "AND",
                              conditions |-> <<IndVal(Rsi2, "<=", 50),
                                               PriceInd("close", "<=", Sma3)>>])>>],
       \* an indicator named with a leading zero
       [entry_rules |-> <<RuleConf("long_in", "EnterLong", PriceInd("close", ">", Sma02))>>,
        exit_rules  |-> <<RuleConf("long_out", "ExitLong", PriceInd("close", "<", Sma02))>>] >>

\* the position_sizing blocks of the strategy descriptions
Sizings ==
    << [method |-> "Quantity", value |-> 1],
       [method |-> "Quantity", value |-> 2],
       [method |-> "CapitalBased", value |-> 50, is_percentage |-> TRUE],
       [method |-> "capitalbased", value |-> 250] >>

StrategyConfig(r, z) ==
    [strategy_name   |-> "strategy",
     instruments     |-> <<"NSE_EQ">>,
     timeframes      |-> <<"day">>,
     position_sizing |-> Sizings[z],
     entry_rules     |-> RuleSets[r].entry_rules,
     exit_rules      |-> RuleSets[r].exit_rules]

\* closing prices of the candles, in cents
Closes == {100, 200, 300}

\* initial capital, in cents
Capitals == {250, 1000}

\* the candle series of n candles: timestamps strictly increasing (the
\* primary key of historical_candles, ordered ascending)
CandleSeries(n) ==
    {[k \in 1..n |-> Candle(k, c[k])] : c \in [1..n -> Closes]}

\* single runs: the end-to-end scenarios A to D, a zero price, two
\* indicator names that cannot be created, a break-even trade, a period
\* spelled in two ways and an entry with all the capital; strategy
\* description, closing prices of the rows of historical_candles (in cents)
\* and initial capital (in cents)
Scenarios ==
    << \* A: SMA(3) crossing above SMA(5), long only, no exit rule
       [config  |-> [strategy_name   |-> "scenario_a",
                     instruments     |-> <<"NSE_EQ">>,
                     timeframes      |-> <<"day">>,
                     position_sizing |-> [method |-> "Quantity", value |-> 1],
                     entry_rules     |-> <<RuleConf("sma_cross", "EnterLong",
                                                    Cross("CrossesAbove", Sma3, Sma5))>>,
                     exit_rules      |-> <<>>],
        closes  |-> <<1000, 1100, 1200, 1300, 1400, 1500, 1600, 1700, 1800, 1900, 2000>>,
        capital |-> 10000000],
       \* B: entry above SMA(5), exit below SMA(5)
       [config  |-> [strategy_name   |-> "scenario_b",
                     instruments     |-> <<"NSE_EQ">>,
                     timeframes      |-> <<"day">>,
                     position_sizing |-> [method |-> "Quantity", value |-> 1],
                     entry_rules     |-> <<RuleConf("above", "EnterLong",
                                                    PriceInd("Close", ">", Sma5))>>,
                     exit_rules      |-> <<RuleConf("below", "ExitLong",
                                                    PriceInd("Close", "<", Sma5))>>],
        closes  |-> <<1000, 1000, 1000, 1000, 1000, 1500, 1200>>,
        capital |-> 10000000],
       \* C: half of the initial capital allocated to the entry
       [config  |-> [strategy_name   |-> "scenario_c",
                     instruments     |-> <<"NSE_EQ">>,
                     timeframes      |-> <<"day">>,
                     position_sizing |-> [method |-> "CapitalBased", value |-> 50,
                                          is_percentage |-> TRUE],
                     entry_rules     |-> <<RuleConf("always", "EnterLong",
                                                    PriceVal("Close", ">", 0))>>,
                     exit_rules      |-> <<>>],
        closes  |-> <<20000, 20000>>,
        capital |-> 1000000],
       \* D: an entry the cash cannot pay
       [config  |-> [strategy_name   |-> "scenario_d",
                     instruments     |-> <<"NSE_EQ">>,
                     timeframes      |-> <<"day">>,
                     position_sizing |-> [method |-> "Quantity", value |-> 10],
                     entry_rules     |-> <<RuleConf("always", "EnterLong",
                                                    PriceVal("Close", ">", 0))>>,
                     exit_rules      |-> <<>>],
        closes  |-> <<2000, 2000>>,
        capital |-> 10000],
       \* a candle with a close of zero under capital-based sizing
       [config  |-> [strategy_name   |-> "zero_close",
                     instruments     |-> <<"NSE_EQ">>,
                     timeframes      |-> <<"day">>,
                     position_sizing |-> [method |-> "CapitalBased", value |-> 5000,
                                          is_percentage |-> FALSE],
                     entry_rules     |-> <<RuleConf("always", "EnterLong",
                                                    PriceVal("Close", ">=", 0))>>,
                     exit_rules      |-> <<>>],
        closes  |-> <<0, 2000>>,
        capital |-> 10000],
       \* an indicator the backtester does not know
       [config  |-> [strategy_name   |-> "unknown_base",
                     instruments     |-> <<"NSE_EQ">>,
                     timeframes      |-> <<"day">>,
                     position_sizing |-> [method |-> "Quantity", value |-> 1],
                     entry_rules     |-> <<RuleConf("above", "EnterLong",
                                                    PriceInd("Close", ">", Ema2))>>,
                     exit_rules      |-> <<>>],
        closes  |-> <<1000, 1100, 1200>>,
        capital |-> 10000],
       \* an indicator with a period of zero
       [config  |-> [strategy_name   |-> "zero_period",
                     instruments     |-> <<"NSE_EQ">>,
                     timeframes      |-> <<"day">>,
                     position_sizing |-> [method |-> "Quantity", value |-> 1],
                     entry_rules     |-> <<RuleConf("above", "EnterLong",
                                                    PriceInd("Close", ">", Sma0))>>,
                     exit_rules      |-> <<>>],
        closes  |-> <<1000, 1100, 1200>>,
        capital |-> 10000],
       \* a round trip whose gain equals its two commissions, then a losing one
       [config  |-> [strategy_name   |-> "break_even",
                     instruments     |-> <<"NSE_EQ">>,
                     timeframes      |-> <<"day">>,
                     position_sizing |-> [method |-> "Quantity", value |-> 100],
                     entry_rules     |-> <<RuleConf("low", "EnterLong",
                                                    PriceVal("Close", "<", 10002))>>,
                     exit_rules      |-> <<RuleConf("high", "ExitLong",
                                                    PriceVal("Close", ">=", 10002))>>],
        closes  |-> <<10000, 10002, 10001, 10002>>,
        capital |-> 2000000],
       \* one indicator under two spellings of its period
       [config  |-> [strategy_name   |-> "two_spellings",
                     instruments     |-> <<"NSE_EQ">>,
                     timeframes      |-> <<"day">>,
                     position_sizing |-> [method |-> "Quantity", value |-> 1],
                     entry_rules     |-> <<RuleConf("above", "EnterLong",
                                                    PriceInd("Close", ">", Sma02))>>,
                     exit_rules      |-> <<RuleConf("below", "ExitLong",
                                                    PriceInd("Close", "<", Sma2))>>],
        closes  |-> <<1000, 1100, 1200, 1000>>,
        capital |-> 10000],
       \* the whole initial capital allocated to the entry
       [config  |-> [strategy_name   |-> "all_in",
                     instruments     |-> <<"NSE_EQ">>,
                     timeframes      |-> <<"day">>,
                     position_sizing |-> [method |-> "CapitalBased", value |-> 100,
                                          is_percentage |-> TRUE],
                     entry_rules     |-> <<RuleConf("always", "EnterLong",
                                                    PriceVal("Close", ">", 0))>>,
                     exit_rules      |-> <<>>],
        closes  |-> <<2000, 2000>>,
        capital |-> 10000] >>

\* the description without one of its members
Without(config, key) == [k \in DOMAIN config \ {key} |-> config[k]]

\* a description with the one rule given, entering long
OneRuleConfig(rule) ==
    [strategy_name   |-> "strategy",
     instruments     |-> <<"NSE_EQ">>,
     timeframes      |-> <<"day">>,
     position_sizing |-> [method |-> "Quantity", value |-> 1],
     entry_rules     |-> <<rule>>,
     exit_rules      |-> <<>>]

\* a rule createStrategy accepts
ValidRule == RuleConf("always", "EnterLong", PriceVal("Close", ">=", 100))

\* strategy descriptions createStrategy has to refuse, one flaw each
InvalidConfigs ==
    << Without(OneRuleConfig(ValidRule), "strategy_name"),
       [OneRuleConfig(ValidRule) EXCEPT !.strategy_name = ""],
       Without(OneRuleConfig(ValidRule), "instruments"),
       [OneRuleConfig(ValidRule) EXCEPT !.instruments = <<>>],
       Without(OneRuleConfig(ValidRule), "timeframes"),
       [OneRuleConfig(ValidRule) EXCEPT !.timeframes = <<>>],
       Without(OneRuleConfig(ValidRule), "entry_rules"),
       [OneRuleConfig(ValidRule) EXCEPT !.entry_rules = <<>>],
       OneRuleConfig(RuleConf("no_action", "None", PriceVal("Close", ">=", 100))),
       OneRuleConfig(RuleConf("", "EnterLong", PriceVal("Close", ">=", 100))),
       OneRuleConfig(RuleConf("unknown_type", "EnterLong", [type |-> "Volume", op |-> ">"])),
       OneRuleConfig(RuleConf("empty_and", "EnterLong", [type |-> "AND", conditions |-> <<>>])),
       OneRuleConfig(RuleConf("empty_or", "EnterLong", [type |-> "OR", conditions |-> <<>>])),
       OneRuleConfig(RuleConf("self_compare", "EnterLong",
                              [type |-> "Indicator", indicator1 |-> Sma2, op |-> ">",
                               indicator2 |-> Sma2])),
       OneRuleConfig(RuleConf("self_cross", "EnterLong", Cross("CrossesAbove", Sma2, Sma2))),
       \* the flaw below a valid sibling, in an exit rule
       [OneRuleConfig(ValidRule) EXCEPT
           !.exit_rules = <<RuleConf("nested", "ExitLong",
                                     [type |-> "OR",
                                      conditions |-> <<PriceVal("Close", "<", 100),
                                                       Cross("CrossesBelow", Sma3, Sma3)>>])>>] >>

\* the candle rows behind the refused descriptions
InvalidConfigCloses == <<100, 200, 300>>

\* the rows of historical_candles of a scenario, one per day
ScenarioCandles(closes) == [k \in 1..Len(closes) |-> Candle(k, closes[k])]

\* the row limit of the SELECT statement of queryCandles
QueryLimit == 5

\* DatabaseManager::queryCandles: the rows in ascending timestamp order, cut
\* at the row limit (the statement has no date filter)
queryCandles(rows) == SubSeq(rows, 1, Min({Len(rows), QueryLimit}))

-----------------------------------------------------------------------------
(* Backtester::run as a state machine *)

\* the locals of runEventLoop before the first iteration
NoBar == [i |-> 0, max_lookback |-> 0]

\* what one iteration handed to the strategy and received from it
Visit(i, snapshot, signal, position_before, portfolio_before) ==
    [index |-> i, snapshot |-> snapshot, signal |-> signal,
     position_before |-> position_before, portfolio_before |-> portfolio_before]

primary_instrument_key_ == strategy_.required_instruments_[1]

Init ==
    /\ pc = "start"
    /\ \/ /\ \E r \in 1..Len(RuleSets), z \in 1..Len(Sizings) :
                   strategy_config = StrategyConfig(r, z)
          /\ \E n \in 0..MaxCandles : db_candles \in CandleSeries(n)
          /\ initial_capital_ \in Capitals
       \/ \E s \in 1..Len(Scenarios) :
             /\ strategy_config = Scenarios[s].config
             /\ db_candles = ScenarioCandles(Scenarios[s].closes)
             /\ initial_capital_ = Scenarios[s].capital
       \/ \E c \in 1..Len(InvalidConfigs) :
             /\ strategy_config = InvalidConfigs[c]
             /\ db_candles = ScenarioCandles(InvalidConfigCloses)
             /\ initial_capital_ \in Capitals
    /\ strategy_ = NullStrategy
    /\ primary_data_ = <<>>
    /\ indicators_ = EmptyMap
    /\ indicator_results_ = EmptyMap
    /\ portfolio_ = Portfolio(initial_capital_)
    /\ bar = NoBar
    /\ visited = <<>>
    /\ metrics = NoMetrics
    /\ run_result = "none"

\* run, step 1: StrategyFactory::createStrategy (lines 39-46)
LoadStrategy ==
    /\ pc = "start"
    /\ strategy_' = createStrategy(strategy_config)
    /\ IF strategy_'.is_null
       THEN pc' = "done" /\ run_result' = FALSE
       ELSE pc' = "load_data" /\ run_result' = run_result
    /\ UNCHANGED <<strategy_config, db_candles, initial_capital_, primary_data_, indicators_,
                   indicator_results_, portfolio_, bar, visited, metrics>>

\* run, step 2: Backtester::loadData (lines 94-144)
LoadData ==
    /\ pc = "load_data"
    /\ primary_data_' = queryCandles(db_candles)
    /\ IF primary_data_' = <<>>
       THEN pc' = "done" /\ run_result' = FALSE
       ELSE pc' = "indicators" /\ run_result' = run_result
    /\ UNCHANGED <<strategy_config, db_candles, initial_capital_, strategy_, indicators_,
                   indicator_results_, portfolio_, bar, visited, metrics>>

\* run, step 3: Backtester::createAndCalculateIndicators (lines 201-263).
\* Dereferencing the null pointer that indicators_[name] inserted is
\* undefined: the process dies, or the statement has no further effect.
\* Each call into TA-Lib succeeds or returns an error code.
CreateAndCalculateIndicators ==
    /\ pc = "indicators"
    /\ \E ta_failures \in SUBSET {createIndicator(n).indicator.name_ :
                                    n \in strategy_.required_indicator_names_} :
       LET required_names == SelectSeq(NameOrder,
                                LAMBDA n : n \in strategy_.required_indicator_names_)
           st == CalculateAll([status |-> "ok", deref_null |-> FALSE,
                               indicators |-> EmptyMap, results |-> EmptyMap],
                              required_names, primary_data_, ta_failures)
       IN  /\ indicators_' = st.indicators
           /\ indicator_results_' = st.results
           /\ \/ /\ st.deref_null
                 /\ pc' = "crashed"
                 /\ run_result' = run_result
              \/ /\ st.status = "ok"
                 /\ pc' = "event_loop"
                 /\ run_result' = run_result
              \/ /\ st.status # "ok"
                 /\ pc' = "done"
                 /\ run_result' = FALSE
    /\ UNCHANGED <<strategy_config, db_candles, initial_capital_, strategy_, primary_data_,
                   portfolio_, bar, visited, metrics>>

\* runEventLoop up to the first iteration (lines 266-293)
BeginEventLoop ==
    /\ pc = "event_loop"
    /\ LET max_lookback == MaxLookback(indicators_)
       IN  IF \/ primary_data_ = <<>>
              \/ strategy_.is_null
              \/ Cardinality(DOMAIN indicators_) # Cardinality(strategy_.required_indicator_names_)
              \/ Len(primary_data_) <= max_lookback
           THEN pc' = "metrics" /\ bar' = bar
           ELSE pc' = "bar" /\ bar' = [bar EXCEPT !.i = max_lookback, !.max_lookback = max_lookback]
    /\ UNCHANGED <<strategy_config, db_candles, initial_capital_, strategy_, primary_data_,
                   indicators_, indicator_results_, portfolio_, visited, metrics, run_result>>

\* one iteration of the loop of runEventLoop (lines 293-355)
Bar ==
    /\ pc = "bar"
    /\ LET i              == bar.i
           current_candle == primary_data_[i + 1]
           snapshot       == BuildSnapshot(primary_data_, indicators_, indicator_results_, i)
           evaluated      == Strategy_evaluate(strategy_, snapshot)
       IN  /\ strategy_' = evaluated.strategy
           /\ portfolio_' = ExecuteAndRecord(portfolio_, strategy_, initial_capital_,
                                             primary_instrument_key_, current_candle,
                                             evaluated.action)
           /\ bar' = [bar EXCEPT !.i = i + 1]
           /\ visited' = Append(visited, Visit(i, snapshot, evaluated.action,
                                               strategy_.current_position_, portfolio_))
           /\ pc' = IF i + 1 < Len(primary_data_) THEN "bar" ELSE "metrics"
    /\ UNCHANGED <<strategy_config, db_candles, initial_capital_, primary_data_, indicators_,
                   indicator_results_, metrics, run_result>>

\* run, step 5: calculateMetrics and the return of run (lines 78-84)
CalculateMetrics ==
    /\ pc = "metrics"
    /\ metrics' = calculateMetrics(portfolio_, initial_capital_)
    /\ pc' = "done"
    /\ run_result' = TRUE
    /\ UNCHANGED <<strategy_config, db_candles, initial_capital_, strategy_, primary_data_,
                   indicators_, indicator_results_, portfolio_, bar, visited>>

Next ==
    \/ LoadStrategy
    \/ LoadData
    \/ CreateAndCalculateIndicators
    \/ BeginEventLoop
    \/ Bar
    \/ CalculateMetrics

Spec == Init /\ [][Next]_vars

-----------------------------------------------------------------------------
(* Properties of a run *)

Sign(n) == IF n > 0 THEN 1 ELSE IF n < 0 THEN -1 ELSE 0

PositionSide(position) ==
    CASE position = "Long" -> 1 [] position = "Short" -> -1 [] OTHER -> 0

BarProcessed == Len(visited) > 0

LastVisit == visited[Len(visited)]

PrimaryQuantity == getPositionQuantity(portfolio_, primary_instrument_key_)

LongTrades == {k \in 1..Len(portfolio_.trade_log_) :
                 portfolio_.trade_log_[k].entry_action = "EnterLong"}

ShortTrades == {k \in 1..Len(portfolio_.trade_log_) :
                  portfolio_.trade_log_[k].entry_action = "EnterShort"}

\* C1: after every bar the event loop has processed, the strategy's cached
\* position is the sign of the portfolio's quantity of the primary
\* instrument: Flat iff 0, Long iff positive, Short iff negative.
C1_PositionIsSignOfQuantity ==
    BarProcessed => PositionSide(strategy_.current_position_) = Sign(PrimaryQuantity)

\* C2: a run that ends with no open position has the pnl of its logged
\* trades summing to the total equity of the last equity sample minus the
\* initial capital.
C2_PnlSumIsEquityChange ==
    (pc = "done" /\ run_result = TRUE /\ BarProcessed /\ PrimaryQuantity = 0)
        => PnlSum(portfolio_.trade_log_, DOMAIN portfolio_.trade_log_)
             = portfolio_.equity_curve_[Len(portfolio_.equity_curve_)].total_equity
                 - initial_capital_

\* C3: every logged trade entered with EnterShort has
\* pnl = (entry_price - exit_price) * |entry quantity| - total commission.
C3_ShortTradePnl ==
    \A k \in ShortTrades :
        LET trade == portfolio_.trade_log_[k]
        IN  trade.pnl = (trade.entry_price - trade.exit_price) * Abs(trade.quantity)
                          - trade.commission

\* C4: every logged trade entered with EnterLong has
\* pnl = (exit_price - entry_price) * qty - total commission, the total
\* commission being that of its two executions, and
\* return_pct = pnl / (entry_price * qty).
C4_LongTradePnlAndReturn ==
    \A k \in LongTrades :
        LET trade == portfolio_.trade_log_[k]
        IN  /\ trade.commission = 2 * trade.quantity * CommissionPerShare
            /\ trade.pnl = (trade.exit_price - trade.entry_price) * trade.quantity
                             - trade.commission
            /\ RatEQ(trade.return_pct, <<trade.pnl, trade.entry_price * trade.quantity>>)

\* a long round trip with a gain or a loss has been logged
C4_Witness ==
    \E k \in LongTrades : /\ portfolio_.trade_log_[k].exit_price # portfolio_.trade_log_[k].entry_price
                          /\ portfolio_.trade_log_[k].quantity > 1

-----------------------------------------------------------------------------
(* The Portfolio driven directly: any sequence of recordTrade and
   recordTimestampValue calls on a portfolio of positive initial capital *)

\* calls that change the portfolio in one sequence of calls
MaxCalls == 3

Instruments == {"NSE_EQ", "NSE_FO"}

Quantities == -1..2

Commissions == {0, 400}

\* execution and valuation prices, in cents
Prices == {100, 300}

PortfolioInit ==
    /\ pc = "portfolio"
    /\ strategy_config = StrategyConfig(1, 1)
    /\ db_candles = <<>>
    /\ initial_capital_ \in Capitals
    /\ strategy_ = NullStrategy
    /\ primary_data_ = <<>>
    /\ indicators_ = EmptyMap
    /\ indicator_results_ = EmptyMap
    /\ portfolio_ = Portfolio(initial_capital_)
    /\ bar = NoBar
    /\ visited = <<>>
    /\ metrics = NoMetrics
    /\ run_result = "none"

\* the time of the next call: one tick per accepted execution
Clock == portfolio_.execution_count_ + 1

\* the calls that changed the portfolio so far
Calls == portfolio_.execution_count_ + Len(portfolio_.equity_curve_)

\* a call of Portfolio::recordTrade
RecordTrade ==
    /\ pc = "portfolio"
    /\ Calls < MaxCalls
    /\ \E instrument_key \in Instruments, action \in SignalAction, quantity \in Quantities,
          execution_price \in Prices, commission \in Commissions :
            portfolio_' = recordTrade(portfolio_, Clock, instrument_key, action, quantity,
                                      execution_price, commission)
    /\ UNCHANGED <<pc, strategy_config, db_candles, initial_capital_, strategy_, primary_data_,
                   indicators_, indicator_results_, bar, visited, metrics, run_result>>

\* a call of Portfolio::recordTimestampValue
RecordTimestampValue ==
    /\ pc = "portfolio"
    /\ Calls < MaxCalls
    /\ \E held \in {{}, Instruments}, price \in Prices :
            portfolio_' = recordTimestampValue(portfolio_, Clock, [k \in held |-> price])
    /\ UNCHANGED <<pc, strategy_config, db_candles, initial_capital_, strategy_, primary_data_,
                   indicators_, indicator_results_, bar, visited, metrics, run_result>>

PortfolioNext ==
    \/ RecordTrade
    \/ RecordTimestampValue

PortfolioSpec == PortfolioInit /\ [][PortfolioNext]_vars

\* C5: the cash of a portfolio of positive initial capital is never negative,
\* whatever recordTrade calls (action, quantity, price, commission) it gets.
C5_CashNeverNegative == portfolio_.cash_ >= 0

\* executions were accepted and a further call would be rejected for cash
C5_Witness ==
    /\ pc = "portfolio"
    /\ portfolio_.execution_count_ > 0
    /\ \E instrument_key \in Instruments, action \in SignalAction, quantity \in Quantities,
          execution_price \in Prices, commission \in Commissions :
            LET current_qty == getPositionQuantity(portfolio_, instrument_key)
                q           == ClampedQuantity(action, quantity, current_qty)
            IN  /\ ~TradeIgnored(action, quantity, current_qty)
                /\ InsufficientCash(portfolio_.cash_,
                                    TradeCost(action, q, execution_price, commission))

-----------------------------------------------------------------------------
(* Properties of the bars of a run *)

EntrySignals == {"EnterLong", "EnterShort"}

\* the entry rules that return an entry action on the snapshot of visit v
FiringEntries(v) ==
    {k \in DOMAIN strategy_.entry_rules_ :
        Rule_evaluate(strategy_.entry_rules_[k], v.snapshot) \in EntrySignals}

\* the exit rules that return the given action on the snapshot of visit v
FiringExits(v, action) ==
    {k \in DOMAIN strategy_.exit_rules_ :
        Rule_evaluate(strategy_.exit_rules_[k], v.snapshot) = action}

\* the strategy's position after the k-th visited bar
PositionAfter(k) ==
    IF k < Len(visited) THEN visited[k + 1].position_before ELSE strategy_.current_position_

\* C6: the signal of a bar is gated by the cached position.  Flat: the action
\* of the first entry rule returning EnterLong or EnterShort, None if there
\* is none.  Long: ExitLong iff some exit rule returns ExitLong, else None.
\* Short: ExitShort iff some exit rule returns ExitShort, else None.  An exit
\* rule of the other side yields None and leaves the position unchanged.
C6_SignalGatedByPosition ==
    \A k \in DOMAIN visited :
        LET v == visited[k]
        IN  /\ v.position_before = "None" =>
                /\ v.signal \in {"None"} \cup EntrySignals
                /\ v.signal = IF FiringEntries(v) = {} THEN "None"
                              ELSE strategy_.entry_rules_[Min(FiringEntries(v))].action_
            /\ v.position_before = "Long" =>
                /\ v.signal \in {"None", "ExitLong"}
                /\ v.signal = "ExitLong" <=> FiringExits(v, "ExitLong") # {}
                /\ v.signal = "None" => PositionAfter(k) = "Long"
            /\ v.position_before = "Short" =>
                /\ v.signal \in {"None", "ExitShort"}
                /\ v.signal = "ExitShort" <=> FiringExits(v, "ExitShort") # {}
                /\ v.signal = "None" => PositionAfter(k) = "Short"

\* a Flat bar on which two entry rules of different action fired, and a Long
\* bar on which only an ExitShort rule fired
C6_Witness ==
    /\ \E k \in DOMAIN visited :
          /\ visited[k].position_before = "None"
          /\ \E a, b \in FiringEntries(visited[k]) :
                strategy_.entry_rules_[a].action_ # strategy_.entry_rules_[b].action_
    /\ \E k \in DOMAIN visited :
          /\ visited[k].position_before = "Long"
          /\ FiringExits(visited[k], "ExitShort") # {}
          /\ FiringExits(visited[k], "ExitLong") = {}
          /\ visited[k].signal = "None"

C8_SnapshotIndicatorValues ==
    \A k \in DOMAIN visited :
        \A n \in DOMAIN indicators_ :
            LET i        == visited[k].index
                snapshot == visited[k].snapshot
                L        == indicators_[n].lookback_
                results  == indicator_results_[n]
            IN  /\ (n \in DOMAIN snapshot.indicator_values) <=> (i >= L)
                /\ (i >= L) => snapshot.indicator_values[n] = results[i - L + 1]
                /\ (n \in DOMAIN snapshot.indicator_values_prev) <=> (i - 1 >= L)
                /\ (i - 1 >= L) => snapshot.indicator_values_prev[n] = results[i - L]

\* C9: the bars are visited in strictly increasing index order, each once,
\* from the maximum lookback of the indicators to the last candle; no bar
\* below the maximum lookback is visited, and a series of max_lookback + 1
\* candles gives one visited bar.
C9_BarsInOrderFromMaxLookback ==
    /\ \A k \in DOMAIN visited :
          /\ visited[k].index = visited[1].index + k - 1
          /\ \A n \in DOMAIN indicators_ : indicators_[n].lookback_ <= visited[k].index
    /\ BarProcessed =>
          \/ visited[1].index = 0
          \/ \E n \in DOMAIN indicators_ : indicators_[n].lookback_ = visited[1].index
    /\ (pc \in {"metrics", "done"} /\ BarProcessed) =>
          /\ LastVisit.index = Len(primary_data_) - 1
          /\ Len(primary_data_) = visited[1].index + 1 => Len(visited) = 1
    /\ (pc = "bar") => bar.i < Len(primary_data_)

\* the loop has ended after one bar of a series of max_lookback + 1 candles,
\* max_lookback > 0
C9_Witness ==
    /\ pc = "done"
    /\ Len(visited) = 1
    /\ visited[1].index > 0
    /\ Len(primary_data_) = visited[1].index + 1

\* C10: the equity sample of a bar is taken after the execution of its
\* signal: it holds the cash after the trade of the bar and the quantity
\* after the trade times the close of the bar.
C10_SampleAfterExecution ==
    BarProcessed =>
        LET sample == portfolio_.equity_curve_[Len(portfolio_.equity_curve_)]
            candle == LastVisit.snapshot.current_candle
        IN  /\ Len(portfolio_.equity_curve_) = Len(visited)
            /\ sample.timestamp = candle.timestamp
            /\ sample.cash = portfolio_.cash_
            /\ sample.positions_value = PrimaryQuantity * candle.close
            /\ sample.total_equity = sample.cash + sample.positions_value

\* the last bar executed a trade: cash and quantity differ from the sample before
C10_Witness ==
    /\ Len(visited) >= 2
    /\ LastVisit.signal # "None"
    /\ LET samples == portfolio_.equity_curve_
       IN  /\ Len(samples) >= 2
           /\ samples[Len(samples)].cash # samples[Len(samples) - 1].cash
           /\ PrimaryQuantity # 0

-----------------------------------------------------------------------------
(* Properties of single recordTrade calls *)

\* a further call can still be made in this sequence of calls
CallPossible == pc = "portfolio" /\ Calls < MaxCalls

\* the quantity an accepted call executes: an exit beyond the open position
\* executes the open position
ExecutedQuantity(action, quantity, current_qty) ==
    IF action \in {"ExitLong", "ExitShort"} /\ quantity > Abs(current_qty)
    THEN Abs(current_qty)
    ELSE quantity

\* the cash column of the bookkeeping table
TableCash(action, qty, price, comm) ==
    CASE action = "EnterLong"  -> 0 - (qty * price) - comm
      [] action = "ExitLong"   -> (qty * price) - comm
      [] action = "EnterShort" -> (qty * price) - comm
      [] action = "ExitShort"  -> 0 - (qty * price) - comm

\* the position column of the bookkeeping table
TablePosition(action, qty) ==
    CASE action = "EnterLong"  -> qty
      [] action = "ExitLong"   -> 0 - qty
      [] action = "EnterShort" -> 0 - qty
      [] action = "ExitShort"  -> qty

\* C11: an accepted recordTrade call changes cash and the signed position of
\* its instrument as the bookkeeping table says (EnterLong: -(qty*price) - comm,
\* +qty; ExitLong: +(qty*price) - comm, -qty; EnterShort: +(qty*price) - comm,
\* -qty; ExitShort: -(qty*price) - comm, +qty), the new position being the
\* previous one plus the change; it counts one execution and leaves the other
\* instruments alone.
C11_BookkeepingTable ==
    CallPossible =>
        \A instrument_key \in Instruments, action \in SignalAction, quantity \in Quantities,
           execution_price \in Prices, commission \in Commissions :
            LET after == recordTrade(portfolio_, Clock, instrument_key, action, quantity,
                                     execution_price, commission)
                prev  == getPositionQuantity(portfolio_, instrument_key)
                qty   == ExecutedQuantity(action, quantity, prev)
            IN  after.execution_count_ # portfolio_.execution_count_ =>
                    /\ after.execution_count_ = portfolio_.execution_count_ + 1
                    /\ action \in {"EnterLong", "ExitLong", "EnterShort", "ExitShort"}
                    /\ after.cash_ = portfolio_.cash_ + TableCash(action, qty, execution_price, commission)
                    /\ getPositionQuantity(after, instrument_key) = prev + TablePosition(action, qty)
                    /\ \A other \in Instruments \ {instrument_key} :
                          getPositionQuantity(after, other) = getPositionQuantity(portfolio_, other)

\* a short position is open, executions were accepted before, and a cover of
\* more than the open quantity is accepted
C11_Witness ==
    /\ CallPossible
    /\ portfolio_.execution_count_ > 0
    /\ \E instrument_key \in Instruments, execution_price \in Prices, commission \in Commissions :
          /\ getPositionQuantity(portfolio_, instrument_key) = -1
          /\ recordTrade(portfolio_, Clock, instrument_key, "ExitShort", 2,
                         execution_price, commission).execution_count_
               = portfolio_.execution_count_ + 1

-----------------------------------------------------------------------------
(* Properties of executeSignal *)

\* the portfolio after the k-th visited bar
PortfolioAfter(k) ==
    IF k < Len(visited) THEN visited[k + 1].portfolio_before ELSE portfolio_

\* the quantity of the primary instrument before and after the k-th visited bar
QuantityBefore(k) == getPositionQuantity(visited[k].portfolio_before, primary_instrument_key_)

QuantityAfter(k) == getPositionQuantity(PortfolioAfter(k), primary_instrument_key_)

\* the k-th visited bar executed a trade
Executed(k) == PortfolioAfter(k).execution_count_ # visited[k].portfolio_before.execution_count_

\* C12: executeSignal, given any signal at the bar about to be processed,
\* changes the portfolio only if the signal fits the quantity q of the
\* primary instrument: an entry only when q = 0; ExitLong only when q > 0,
\* selling exactly q; ExitShort only when q < 0, buying exactly |q|; an
\* applied exit leaves the quantity 0.  Otherwise nothing changes.
C12_SignalFitsQuantity ==
    pc = "bar" =>
        \A signal \in SignalAction :
            LET candle == primary_data_[bar.i + 1]
                after  == executeSignal(portfolio_, strategy_, initial_capital_,
                                        primary_instrument_key_, candle.timestamp, candle, signal)
                q       == PrimaryQuantity
                q_after == getPositionQuantity(after, primary_instrument_key_)
            IN  after # portfolio_ =>
                    \/ /\ signal \in {"EnterLong", "EnterShort"}
                       /\ q = 0
                       /\ q_after # 0
                    \/ /\ signal = "ExitLong"
                       /\ q > 0
                       /\ q_after = 0
                       /\ after.cash_ = portfolio_.cash_ + q * candle.close - q * CommissionPerShare
                    \/ /\ signal = "ExitShort"
                       /\ q < 0
                       /\ q_after = 0
                       /\ after.cash_ = portfolio_.cash_ - (-q) * candle.close - (-q) * CommissionPerShare

\* the run had a bar whose entry signal met an open position and changed
\* nothing, after a bar whose exit signal was not executed
C12_Witness ==
    \E j, k \in DOMAIN visited :
        /\ j < k
        /\ visited[j].signal \in {"ExitLong", "ExitShort"}
        /\ ~Executed(j)
        /\ visited[k].signal \in {"EnterLong", "EnterShort"}
        /\ QuantityBefore(k) # 0
        /\ QuantityAfter(k) = QuantityBefore(k)

-----------------------------------------------------------------------------
(* Properties of the trade log of a run *)

\* the time of the k-th visited bar
BarTime(k) == visited[k].snapshot.current_time

\* the visited bars whose entry signal was executed
EntryBars == {k \in DOMAIN visited : visited[k].signal \in EntrySignals /\ Executed(k)}

\* the logged trades that close the entry executed at the k-th visited bar
ClosingTrades(k) ==
    {t \in DOMAIN portfolio_.trade_log_ :
        /\ portfolio_.trade_log_[t].entry_time = BarTime(k)
        /\ portfolio_.trade_log_[t].exit_time > BarTime(k)}

\* C13: every executed entry is closed by no trade or by exactly one later
\* trade of the trade log, and every logged trade has entry_time < exit_time
\* and closes an executed entry of its own instrument and side, at a later
\* bar whose exit signal was executed.
C13_EntryClosedAtMostOnce ==
    /\ \A k \in EntryBars : Cardinality(ClosingTrades(k)) <= 1
    /\ \A t \in DOMAIN portfolio_.trade_log_ :
          LET trade == portfolio_.trade_log_[t]
          IN  /\ trade.entry_time < trade.exit_time
              /\ trade.instrument_key = primary_instrument_key_
              /\ \E k \in EntryBars :
                    /\ t \in ClosingTrades(k)
                    /\ trade.entry_action = visited[k].signal
                    /\ \E j \in DOMAIN visited :
                          /\ j > k
                          /\ BarTime(j) = trade.exit_time
                          /\ visited[j].signal \in {"ExitLong", "ExitShort"}
                          /\ Executed(j)

\* a run with an entry closed by one trade and a later entry still open
C13_Witness ==
    \E k, m \in EntryBars :
        /\ k < m
        /\ Cardinality(ClosingTrades(k)) = 1
        /\ ClosingTrades(m) = {}

\* C14: no bar both exits and enters.  Each bar is evaluated once and yields
\* one signal; a bar whose signal is an exit leaves the strategy Flat, not on
\* the other side, and the portfolio quantity never changes sign within a
\* bar; an entry that follows an exit is at a later bar index.
C14_NoReversalWithinBar ==
    /\ \A j, k \in DOMAIN visited : j < k => visited[j].index < visited[k].index
    /\ \A k \in DOMAIN visited :
          /\ visited[k].signal \in {"ExitLong", "ExitShort"} =>
                /\ PositionAfter(k) = "None"
                /\ QuantityAfter(k) \in {0, QuantityBefore(k)}
          /\ QuantityBefore(k) * QuantityAfter(k) >= 0
    /\ \A j, k \in DOMAIN visited :
          (/\ j < k
           /\ visited[j].signal \in {"ExitLong", "ExitShort"}
           /\ visited[k].signal \in EntrySignals)
            => visited[k].index >= visited[j].index + 1

\* a cover executed at one bar and a long entry executed at the next
C14_Witness ==
    \E k \in 1..(Len(visited) - 1) :
        /\ visited[k].signal = "ExitShort"
        /\ Executed(k)
        /\ visited[k + 1].signal = "EnterLong"
        /\ Executed(k + 1)
        /\ visited[k + 1].index = visited[k].index + 1

\* C15: the equity curve of a run is strictly increasing in timestamp: each
\* sample is later than the one before it, so no timestamp has two samples.
C15_EquityCurveIncreasing ==
    /\ \A k \in 1..(Len(portfolio_.equity_curve_) - 1) :
          portfolio_.equity_curve_[k].timestamp < portfolio_.equity_curve_[k + 1].timestamp
    /\ \A j, k \in DOMAIN portfolio_.equity_curve_ :
          portfolio_.equity_curve_[j].timestamp = portfolio_.equity_curve_[k].timestamp
            => j = k

\* a finished run with at least three equity samples
C15_Witness ==
    /\ pc = "done"
    /\ run_result = TRUE
    /\ Len(portfolio_.equity_curve_) >= 3

-----------------------------------------------------------------------------
(* Properties of the executions of a run *)

\* the candle of the k-th visited bar
BarCandle(k) == visited[k].snapshot.current_candle

\* the quantity executeSignal sizes for an entry at the k-th visited bar
SizedQuantity(k) == EntryQuantity(strategy_, initial_capital_, BarCandle(k).close)

\* what a long entry of the sized quantity costs at the k-th visited bar
EntryCost(k) == SizedQuantity(k) * BarCandle(k).close + SizedQuantity(k) * CommissionPerShare

\* the run went on after the k-th visited bar: the next candle is the next
\* bar, or the loop ended at the last candle and run did not report failure
RunContinues(k) ==
    /\ pc # "crashed"
    /\ (pc = "done" => run_result = TRUE)
    /\ IF k < Len(visited) THEN visited[k + 1].index = visited[k].index + 1
       ELSE IF visited[k].index + 1 < Len(primary_data_)
       THEN pc = "bar" /\ bar.i = visited[k].index + 1
       ELSE pc \in {"metrics", "done"}

\* C16: a long entry on a flat portfolio whose cost (quantity x close plus
\* commission) exceeds the cash is skipped: cash, positions, open-position
\* records, trade log and execution count are as before the bar, the equity
\* curve has gained exactly the sample of that bar, and the run continues.
C16_InsufficientCashSkipsEntry ==
    \A k \in DOMAIN visited :
        LET before == visited[k].portfolio_before
            after  == PortfolioAfter(k)
        IN  (/\ visited[k].signal = "EnterLong"
             /\ QuantityBefore(k) = 0
             /\ SizedQuantity(k) > 0
             /\ EntryCost(k) > before.cash_)
            => /\ after.cash_ = before.cash_
               /\ after.positions_ = before.positions_
               /\ after.open_positions_info_ = before.open_positions_info_
               /\ after.trade_log_ = before.trade_log_
               /\ after.execution_count_ = before.execution_count_
               /\ after.equity_curve_ =
                     Append(before.equity_curve_,
                            [timestamp       |-> BarTime(k),
                             cash            |-> before.cash_,
                             positions_value |-> 0,
                             total_equity    |-> before.cash_])
               /\ RunContinues(k)

\* the example of the claim, run to its end: capital 100.00, Quantity(10),
\* close 20.00; the entry of the first bar was skipped
C16_Witness ==
    /\ pc = "done"
    /\ run_result = TRUE
    /\ initial_capital_ = 10000
    /\ strategy_.sizing_method_ = "Quantity"
    /\ strategy_.sizing_value_ = 10
    /\ visited[1].signal = "EnterLong"
    /\ BarCandle(1).close = 2000
    /\ EntryCost(1) > visited[1].portfolio_before.cash_
    /\ portfolio_.cash_ = 10000
    /\ portfolio_.execution_count_ = 0
    /\ Len(portfolio_.equity_curve_) = 2

\* the capital allocated to an entry, as a rational number of cents
AllocatedCapital ==
    IF strategy_.is_sizing_value_percentage_
    THEN <<initial_capital_ * strategy_.sizing_value_, 100>>
    ELSE <<strategy_.sizing_value_, 1>>

\* C17: an entry signal on a flat portfolio under CapitalBased sizing trades
\* q = floor(A / close) shares, A being the sizing value or that percentage of
\* the initial capital whatever the cash is by then: q x close <= A <
\* (q + 1) x close, and the cash changes by q x close and the commission.  The
\* entry is skipped when the close is not positive, when A buys less than
\* one share, or when the cash cannot pay q shares.
C17_CapitalBasedQuantity ==
    \A k \in DOMAIN visited :
        (/\ visited[k].signal \in EntrySignals
         /\ QuantityBefore(k) = 0
         /\ strategy_.sizing_method_ = "CapitalBased")
        => LET close  == BarCandle(k).close
               A      == AllocatedCapital
               before == visited[k].portfolio_before
               q      == Abs(QuantityAfter(k))
           IN  IF Executed(k)
               THEN /\ close > 0
                    /\ q >= 1
                    /\ q * close * A[2] <= A[1]
                    /\ A[1] < (q + 1) * close * A[2]
                    /\ QuantityAfter(k) = IF visited[k].signal = "EnterLong" THEN q ELSE -q
                    /\ PortfolioAfter(k).cash_ =
                          IF visited[k].signal = "EnterLong"
                          THEN before.cash_ - q * close - q * CommissionPerShare
                          ELSE before.cash_ + q * close - q * CommissionPerShare
               ELSE /\ QuantityAfter(k) = 0
                    /\ PortfolioAfter(k).cash_ = before.cash_
                    /\ \/ close <= 0
                       \/ A[1] < close * A[2]
                       \/ /\ visited[k].signal = "EnterLong"
                          /\ EntryCost(k) > before.cash_

\* the example of the claim: capital 10000.00, 50 percent, close 200.00; the
\* entry bought 25 shares and left 4999.75
C17_Witness ==
    /\ BarProcessed
    /\ initial_capital_ = 1000000
    /\ strategy_.sizing_method_ = "CapitalBased"
    /\ strategy_.is_sizing_value_percentage_
    /\ strategy_.sizing_value_ = 50
    /\ visited[1].signal = "EnterLong"
    /\ BarCandle(1).close = 20000
    /\ Executed(1)
    /\ QuantityAfter(1) = 25
    /\ PortfolioAfter(1).cash_ = 499975

-----------------------------------------------------------------------------
(* The end-to-end scenarios *)

\* the run of scenario s has returned
ScenarioDone(s) ==
    /\ pc = "done"
    /\ strategy_config = Scenarios[s].config
    /\ db_candles = ScenarioCandles(Scenarios[s].closes)

\* C18: scenario A (closes 10.00 to 20.00 in steps of 1.00, entry rule SMA(3)
\* CrossesAbove SMA(5) -> EnterLong, no exit rule, Quantity(1)): the run
\* succeeds, EnterLong is signalled and executed at bar index 5 at close 15.00
\* with quantity 1, and the equity curve ends with six samples.
C18_ScenarioA ==
    ScenarioDone(1) =>
        /\ run_result = TRUE
        /\ \E k \in DOMAIN visited :
              /\ visited[k].index = 5
              /\ visited[k].signal = "EnterLong"
              /\ BarCandle(k).close = 1500
              /\ Executed(k)
              /\ QuantityAfter(k) = 1
        /\ Len(portfolio_.equity_curve_) = 6

\* C19: scenario B (closes 10, 10, 10, 10, 10, 15, 12, entry Close > SMA(5)
\* -> EnterLong, exit Close < SMA(5) -> ExitLong, Quantity(1)): EnterLong is
\* executed at bar 5 (close 15.00, SMA 11.00), ExitLong at bar 6 (close 12.00,
\* SMA 11.40), and the trade log ends with exactly one trade, of pnl
\* (12.00 - 15.00) x 1 - 2 x commission.
C19_ScenarioB ==
    ScenarioDone(2) =>
        /\ run_result = TRUE
        /\ \E j, k \in DOMAIN visited :
              /\ visited[j].index = 5
              /\ visited[j].signal = "EnterLong"
              /\ BarCandle(j).close = 1500
              /\ RatEQ(visited[j].snapshot.indicator_values[Sma5], <<1100, 1>>)
              /\ Executed(j)
              /\ visited[k].index = 6
              /\ visited[k].signal = "ExitLong"
              /\ BarCandle(k).close = 1200
              /\ RatEQ(visited[k].snapshot.indicator_values[Sma5], <<1140, 1>>)
              /\ Executed(k)
        /\ Len(portfolio_.trade_log_) = 1
        /\ portfolio_.trade_log_[1].pnl = (1200 - 1500) * 1 - 2 * CommissionPerShare

-----------------------------------------------------------------------------
(* Indicator errors *)

\* the required name has a base createIndicator does not know
UnknownBase(name) == parseIndicatorString(name)[1] \notin {"SMA", "RSI"}

\* the required name has a known base and a period that is not positive
NonPositivePeriod(name) ==
    /\ parseIndicatorString(name)[1] \in {"SMA", "RSI"}
    /\ parseIndicatorString(name)[2] <= 0

\* calculate was called on the stored indicator and left it without results:
\* the TA-Lib call returned an error code
CalculateFailed(name) ==
    /\ name \in DOMAIN indicators_
    /\ ~indicators_[name].is_null
    /\ indicators_[name].results_ = <<>>

\* createAndCalculateIndicators has been called and has met an indicator error
IndicatorError ==
    /\ pc \in {"event_loop", "bar", "metrics", "done", "crashed"}
    /\ ~strategy_.is_null
    /\ primary_data_ # <<>>
    /\ \/ \E name \in strategy_.required_indicator_names_ :
             UnknownBase(name) \/ NonPositivePeriod(name)
       \/ \E name \in DOMAIN indicators_ : CalculateFailed(name)

\* C20: every indicator error (a required name with an unknown base or a
\* non-positive period, or a failure inside calculate) is fatal: run returns
\* false without entering the event loop, so that no bar is evaluated and no
\* equity sample is recorded.
C20_IndicatorErrorsFatal ==
    IndicatorError =>
        /\ pc = "done"
        /\ run_result = FALSE
        /\ visited = <<>>
        /\ portfolio_.equity_curve_ = <<>>

-----------------------------------------------------------------------------
(* Data errors *)

\* the lookbacks of the required indicators that createIndicator can create
RequiredLookbacks ==
    {createIndicator(name).indicator.lookback_ :
        name \in {n \in strategy_.required_indicator_names_ : createIndicator(n).status = "ok"}}

\* loadData has been called and the candle source returned no candle, or no
\* more candles than the largest lookback of the required indicators
DataError ==
    /\ pc \notin {"start", "load_data", "portfolio"}
    /\ ~strategy_.is_null
    /\ \/ queryCandles(db_candles) = <<>>
       \/ Len(queryCandles(db_candles)) <= Max({0} \cup RequiredLookbacks)

\* C21: a data error is fatal.  Once the candles are loaded, a run whose
\* candle source returned nothing, or no more candles than the maximum
\* indicator lookback, never reaches the event loop: it returns false, and
\* the equity curve and the trade log stay empty.
C21_DataErrorsFatal ==
    DataError =>
        /\ pc \in {"indicators", "done"}
        /\ pc = "done" => run_result = FALSE
        /\ visited = <<>>
        /\ portfolio_.equity_curve_ = <<>>
        /\ portfolio_.trade_log_ = <<>>

\* a run that loaded candles, but no more than the lookback of a required
\* indicator, and has returned false
C21_Witness ==
    /\ pc = "done"
    /\ run_result = FALSE
    /\ primary_data_ # <<>>
    /\ RequiredLookbacks # {}
    /\ Len(primary_data_) <= Max(RequiredLookbacks)

-----------------------------------------------------------------------------
(* Configuration errors *)

ConditionTypes == {"Price", "Indicator", "PriceIndicator", "CrossesAbove", "CrossesBelow",
                   "AND", "OR"}

RECURSIVE ConditionFlawed(_)
\* the condition description has an unknown type, is an AND or OR without
\* children, compares or crosses an indicator with itself, or has such a
\* condition among its children
ConditionFlawed(c) ==
    \/ "type" \notin DOMAIN c
    \/ c.type \notin ConditionTypes
    \/ /\ c.type \in {"AND", "OR"}
       /\ \/ "conditions" \notin DOMAIN c
          \/ c.conditions = <<>>
          \/ \E k \in DOMAIN c.conditions : ConditionFlawed(c.conditions[k])
    \/ /\ c.type \in {"CrossesAbove", "CrossesBelow"}
       /\ {"indicator1", "indicator2"} \subseteq DOMAIN c
       /\ c.indicator1 = c.indicator2
    \/ /\ c.type = "Indicator"
       /\ {"indicator1", "indicator2"} \subseteq DOMAIN c
       /\ "value" \notin DOMAIN c
       /\ c.indicator1 = c.indicator2

\* the rule description has the action None, an empty name or a flawed condition
RuleFlawed(r) ==
    \/ r.action = "None"
    \/ r.rule_name = ""
    \/ ConditionFlawed(r.condition)

\* a member of the description that is missing or empty
MissingOrEmpty(config, key, empty) == key \notin DOMAIN config \/ config[key] = empty

\* the strategy description is invalid in one of the ways of the claim
DescriptionInvalid(config) ==
    \/ MissingOrEmpty(config, "strategy_name", "")
    \/ MissingOrEmpty(config, "instruments", <<>>)
    \/ MissingOrEmpty(config, "timeframes", <<>>)
    \/ MissingOrEmpty(config, "entry_rules", <<>>)
    \/ \E k \in DOMAIN config.entry_rules : RuleFlawed(config.entry_rules[k])
    \/ /\ "exit_rules" \in DOMAIN config
       /\ \E k \in DOMAIN config.exit_rules : RuleFlawed(config.exit_rules[k])

\* C22: an invalid strategy description is refused when the strategy is
\* built: once createStrategy has been called, run has returned false with no
\* strategy, no candle loaded, no indicator created or calculated and no bar
\* evaluated.
C22_InvalidDescriptionRefused ==
    (pc \notin {"start", "portfolio"} /\ DescriptionInvalid(strategy_config)) =>
        /\ pc = "done"
        /\ run_result = FALSE
        /\ strategy_.is_null
        /\ primary_data_ = <<>>
        /\ indicators_ = EmptyMap
        /\ indicator_results_ = EmptyMap
        /\ visited = <<>>
        /\ portfolio_.equity_curve_ = <<>>

\* the run on the description whose exit rule hides a cross of SMA(3) with
\* itself below an OR has returned false, the candle rows never read
C22_Witness ==
    /\ pc = "done"
    /\ run_result = FALSE
    /\ strategy_config = InvalidConfigs[Len(InvalidConfigs)]
    /\ DescriptionInvalid(strategy_config)
    /\ db_candles # <<>>
    /\ primary_data_ = <<>>

-----------------------------------------------------------------------------
(* Properties of the calculated indicators *)

\* runEventLoop has been called
EventLoopStarted == pc \in {"event_loop", "bar", "metrics"} \/ (pc = "done" /\ run_result = TRUE)

\* the indicators the event loop reads: the stored ones that are not null
UsedIndicators == {name \in DOMAIN indicators_ : ~indicators_[name].is_null}

\* C23: whenever the event loop starts, every indicator it uses has a stored
\* result series, and the length of the series plus the indicator's lookback
\* is the number of primary candles.
C23_ResultsAlignedWithCandles ==
    EventLoopStarted =>
        \A name \in UsedIndicators :
            /\ name \in DOMAIN indicator_results_
            /\ Len(indicator_results_[name]) + indicators_[name].lookback_ = Len(primary_data_)

-----------------------------------------------------------------------------
(* Properties of the conditions *)

\* indicator names and operators of the conditions tried on each snapshot
TriedNames == {Sma1, Sma2, Sma3, Rsi2}

TriedOps == {">", "<=", "=="}

\* the conditions over indicators, as parseCondition builds them
IndicatorLeaves ==
    {parseCondition(IndVal(n, op, 50)) : n \in TriedNames, op \in TriedOps}
    \cup {parseCondition([type |-> "Indicator", indicator1 |-> n[1], op |-> op,
                          indicator2 |-> n[2]]) :
             n \in {m \in TriedNames \X TriedNames : m[1] # m[2]}, op \in TriedOps}
    \cup {parseCondition(PriceInd("close", op, n)) : n \in TriedNames, op \in TriedOps}
    \cup {parseCondition(Cross(t, n[1], n[2])) :
             n \in {m \in TriedNames \X TriedNames : m[1] # m[2]},
             t \in {"CrossesAbove", "CrossesBelow"}}

\* the indicator names the condition looks up in the current values
ReferencedNames(c) ==
    CASE c.type = "Indicator"      -> IF c.compare_to_value THEN {c.indicator_name1}
                                      ELSE {c.indicator_name1, c.indicator_name2}
      [] c.type = "PriceIndicator" -> {c.indicator_name}
      [] c.type = "Cross"          -> {c.indicator1_name, c.indicator2_name}
      [] OTHER                     -> {}

\* C24: on the snapshot of every bar handed to the strategy, an
\* IndicatorCondition, PriceIndicatorCondition or IndicatorCrossCondition
\* referring to an indicator that the snapshot does not hold evaluates to
\* false (it is evaluated without error), and the run goes on to the next bar.
C24_MissingIndicatorIsFalse ==
    BarProcessed =>
        /\ \A c \in IndicatorLeaves :
              ReferencedNames(c) \ DOMAIN LastVisit.snapshot.indicator_values # {}
                => Condition_evaluate(c, LastVisit.snapshot) = FALSE
        /\ (strategy_.required_indicator_names_
               \ DOMAIN LastVisit.snapshot.indicator_values # {})
             => RunContinues(Len(visited))

\* a finished run of two or more bars whose snapshots lacked the indicator
\* the strategy's rules refer to
C24_Witness ==
    /\ pc = "done"
    /\ run_result = TRUE
    /\ Len(visited) >= 2
    /\ \E name \in strategy_.required_indicator_names_ :
          \A k \in DOMAIN visited : name \notin DOMAIN visited[k].snapshot.indicator_values
    /\ \E c \in IndicatorLeaves :
          /\ c.type = "PriceIndicator"
          /\ c.indicator_name \in strategy_.required_indicator_names_
          /\ Condition_evaluate(c, visited[1].snapshot) = FALSE

-----------------------------------------------------------------------------
(* IndicatorCrossCondition::evaluate on arbitrary snapshots: a rule with a  *)
(* cross of SMA(1) and SMA(2) is evaluated once on a snapshot whose current *)
(* and previous indicator maps each hold any of the two names               *)

\* indicator values: 1.00, 2.00 and 2.25
CrossValues == {<<100, 1>>, <<200, 1>>, <<450, 2>>}

\* the maps from some of the two indicator names to values
CrossMaps == UNION {[names -> CrossValues] : names \in SUBSET {Sma1, Sma2}}

CrossSnapshots ==
    {[current_time          |-> 1,
      current_candle        |-> Candle(1, 100),
      indicator_values      |-> now,
      indicator_values_prev |-> prev] : now \in CrossMaps, prev \in CrossMaps}

CrossInit ==
    /\ pc = "cross"
    /\ \E type \in {"CrossesAbove", "CrossesBelow"} :
          strategy_config = OneRuleConfig(RuleConf("cross", "EnterLong", Cross(type, Sma1, Sma2)))
    /\ db_candles = <<>>
    /\ initial_capital_ \in {Min(Capitals)}
    /\ strategy_ = createStrategy(strategy_config)
    /\ primary_data_ = <<>>
    /\ indicators_ = EmptyMap
    /\ indicator_results_ = EmptyMap
    /\ portfolio_ = Portfolio(initial_capital_)
    /\ bar = NoBar
    /\ visited = <<>>
    /\ metrics = NoMetrics
    /\ run_result = "none"

\* Rule::evaluate of the cross rule on one snapshot
EvaluateCross ==
    /\ pc = "cross"
    /\ \E snapshot \in CrossSnapshots :
          visited' = <<Visit(0, snapshot, Rule_evaluate(strategy_.entry_rules_[1], snapshot),
                             strategy_.current_position_, portfolio_)>>
    /\ pc' = "cross_done"
    /\ UNCHANGED <<strategy_config, db_candles, initial_capital_, strategy_, primary_data_,
                   indicators_, indicator_results_, portfolio_, bar, metrics, run_result>>

CrossNext == EvaluateCross

CrossSpec == CrossInit /\ [][CrossNext]_vars

\* the four values of the evaluated snapshot are present
AllFourPresent(snapshot) ==
    /\ {Sma1, Sma2} \subseteq DOMAIN snapshot.indicator_values
    /\ {Sma1, Sma2} \subseteq DOMAIN snapshot.indicator_values_prev

\* the relation of the claim between the four values, for the cross type
CrossRelation(type, snapshot) ==
    LET v1_now  == snapshot.indicator_values[Sma1]
        v2_now  == snapshot.indicator_values[Sma2]
        v1_prev == snapshot.indicator_values_prev[Sma1]
        v2_prev == snapshot.indicator_values_prev[Sma2]
    IN  IF type = "CrossesAbove"
        THEN v1_prev[1] * v2_prev[2] <= v2_prev[1] * v1_prev[2]
             /\ v1_now[1] * v2_now[2] > v2_now[1] * v1_now[2]
        ELSE v1_prev[1] * v2_prev[2] >= v2_prev[1] * v1_prev[2]
             /\ v1_now[1] * v2_now[2] < v2_now[1] * v1_now[2]

\* C25: the cross condition of SMA(1) and SMA(2) is true on a snapshot iff
\* the snapshot holds both current and both previous values and, for
\* CrossesAbove, v1_prev <= v2_prev and v1_now > v2_now, for CrossesBelow,
\* v1_prev >= v2_prev and v1_now < v2_now; in particular it is false on a
\* snapshot without previous values, as at the first eligible bar.
C25_CrossIffRelation ==
    pc = "cross_done" =>
        LET snapshot == visited[1].snapshot
            type     == strategy_config.entry_rules[1].condition.type
            fired    == visited[1].signal = "EnterLong"
        IN  /\ fired <=> (AllFourPresent(snapshot) /\ CrossRelation(type, snapshot))
            /\ snapshot.indicator_values_prev = EmptyMap => ~fired

\* CrossesAbove evaluated to true on a snapshot where the two indicators were
\* equal before
C25_Witness ==
    /\ pc = "cross_done"
    /\ strategy_config.entry_rules[1].condition.type = "CrossesAbove"
    /\ visited[1].signal = "EnterLong"
    /\ visited[1].snapshot.indicator_values_prev[Sma1]
         = visited[1].snapshot.indicator_values_prev[Sma2]

\* C26: every trade of the trade log has entry_action EnterLong or
\* EnterShort, the signal executed at its entry bar, and a strictly positive
\* quantity equal to the absolute quantity that entry opened.
C26_TradeSideAndAbsoluteQuantity ==
    \A t \in DOMAIN portfolio_.trade_log_ :
        LET trade == portfolio_.trade_log_[t]
        IN  /\ trade.entry_action \in {"EnterLong", "EnterShort"}
            /\ trade.quantity > 0
            /\ \E k \in EntryBars :
                  /\ BarTime(k) = trade.entry_time
                  /\ k < Len(visited)
                  /\ visited[k].signal = trade.entry_action
                  /\ trade.quantity
                       = Abs(getPositionQuantity(visited[k + 1].portfolio_before,
                                                 trade.instrument_key))

\* the same for the trades entered long only
C26_LongTradesOnly ==
    \A t \in DOMAIN portfolio_.trade_log_ :
        LET trade == portfolio_.trade_log_[t]
        IN  trade.entry_action = "EnterLong" =>
              /\ trade.quantity > 0
              /\ \E k \in EntryBars :
                    /\ BarTime(k) = trade.entry_time
                    /\ k < Len(visited)
                    /\ visited[k].signal = "EnterLong"
                    /\ trade.quantity
                         = getPositionQuantity(visited[k + 1].portfolio_before,
                                               trade.instrument_key)

\* the side of every trade is the signal executed at its entry bar
C26_SideMatches ==
    \A t \in DOMAIN portfolio_.trade_log_ :
        LET trade == portfolio_.trade_log_[t]
        IN  /\ trade.entry_action \in {"EnterLong", "EnterShort"}
            /\ \E k \in EntryBars :
                  BarTime(k) = trade.entry_time /\ visited[k].signal = trade.entry_action

\* the logged trades with a loss
LosingTrades == {t \in DOMAIN portfolio_.trade_log_ : portfolio_.trade_log_[t].pnl < 0}

\* the logged trades with a gain
GainingTrades == {t \in DOMAIN portfolio_.trade_log_ : portfolio_.trade_log_[t].pnl > 0}

\* the sum of the pnl of the logged trades ts
RECURSIVE TotalPnl(_)
TotalPnl(ts) ==
    IF ts = {} THEN 0
    ELSE LET t == CHOOSE x \in ts : TRUE
         IN  portfolio_.trade_log_[t].pnl + TotalPnl(ts \ {t})

\* the ratio r equals n / d (d > 0)
IsRatio(r, n, d) == r[2] # 0 /\ r[1] * d = n * r[2]

\* win_rate is the share of the logged trades with a gain, 0 without trades
WinRateDerived ==
    IF portfolio_.trade_log_ = <<>> THEN IsRatio(metrics.win_rate, 0, 1)
    ELSE IsRatio(metrics.win_rate, Cardinality(GainingTrades), Len(portfolio_.trade_log_))

\* avg_win_pnl is the mean pnl of the trades with a gain
AvgWinDerived ==
    GainingTrades # {} =>
        IsRatio(metrics.avg_win_pnl, TotalPnl(GainingTrades), Cardinality(GainingTrades))

\* avg_loss_pnl is the mean pnl of the trades with a loss
AvgLossDerived ==
    LosingTrades # {} =>
        IsRatio(metrics.avg_loss_pnl, TotalPnl(LosingTrades), Cardinality(LosingTrades))

\* C27: in the derived metrics win_rate is the number of trades with pnl > 0
\* over the number of round trips (0 without trades), avg_win_pnl the mean
\* pnl of exactly the trades with pnl > 0 and avg_loss_pnl the mean pnl of
\* exactly the trades with pnl < 0: a trade with pnl = 0 counts in neither.
C27_TradeMetrics ==
    (pc = "done" /\ metrics.calculated) =>
        WinRateDerived /\ AvgWinDerived /\ AvgLossDerived

\* the same without the average loss
C27_WinRateAndAverageWin ==
    (pc = "done" /\ metrics.calculated) => WinRateDerived /\ AvgWinDerived

\* the average loss in the runs without a trade of pnl = 0
C27_AverageLossWithoutBreakEven ==
    (/\ pc = "done"
     /\ metrics.calculated
     /\ \A t \in DOMAIN portfolio_.trade_log_ : portfolio_.trade_log_[t].pnl # 0)
        => AvgLossDerived

\* the run has returned true
ReturnedTrue == pc = "done" /\ run_result = TRUE

\* the event loop has visited every candle from index max_lookback on
LoopWalked ==
    /\ Len(visited) = Len(primary_data_) - MaxLookback(indicators_)
    /\ \A k \in DOMAIN visited : visited[k].index = MaxLookback(indicators_) + k - 1

\* the metrics record has been derived from the equity curve
MetricsDerived ==
    /\ metrics.calculated
    /\ portfolio_.equity_curve_ # <<>>
    /\ metrics.total_pnl
         = portfolio_.equity_curve_[Len(portfolio_.equity_curve_)].total_equity
           - initial_capital_
    /\ metrics.round_trip_trades = Len(portfolio_.trade_log_)

\* C28: every run that returned true over more candles than max_lookback has
\* walked the event loop over all candles from max_lookback on and has
\* derived the metrics record, with total_pnl = final_equity - initial_capital.
C28_TrueRunWalkedAndDerived ==
    (ReturnedTrue /\ Len(primary_data_) > MaxLookback(indicators_)) =>
        LoopWalked /\ MetricsDerived

\* the same for the runs that returned true with at least two visited bars
C28_TwoBarsDerived ==
    (ReturnedTrue /\ Len(visited) >= 2) => LoopWalked /\ MetricsDerived

\* a run that returned true over more candles than max_lookback has walked
\* the loop
C28_TrueRunWalked ==
    (ReturnedTrue /\ Len(primary_data_) > MaxLookback(indicators_)) => LoopWalked

-----------------------------------------------------------------------------
(* Properties of single recordTimestampValue calls *)

\* the price maps a call can be given: any of the instruments priced
PriceMaps == UNION {[priced -> Prices] : priced \in SUBSET Instruments}

\* the timestamps a call can be given
CallTimes == 1..(MaxCalls + 1)

\* the equity curve of the portfolio p ends with a sample of time t
LastSampledAt(p, t) ==
    p.equity_curve_ # <<>> /\ p.equity_curve_[Len(p.equity_curve_)].timestamp = t

\* the curve after is the curve before with one more sample, of time t
OneSampleAppended(before, after, t) ==
    /\ Len(after) = Len(before) + 1
    /\ SubSeq(after, 1, Len(before)) = before
    /\ after[Len(after)].timestamp = t

\* C29: recordTimestampValue(t, prices) on the portfolio appends exactly one
\* sample, of timestamp t, when the equity curve is empty or its last sample
\* has another timestamp, and otherwise leaves the curve as it is; cash,
\* positions, open-position records, trade log and execution count stay.
C29_SampleOncePerTimestamp ==
    pc = "portfolio" =>
        \A t \in CallTimes, prices \in {EmptyMap, [k \in Instruments |-> Max(Prices)]} :
            LET after == recordTimestampValue(portfolio_, t, prices)
            IN  /\ IF LastSampledAt(portfolio_, t)
                   THEN after.equity_curve_ = portfolio_.equity_curve_
                   ELSE OneSampleAppended(portfolio_.equity_curve_, after.equity_curve_, t)
                /\ [after EXCEPT !.equity_curve_ = <<>>]
                     = [portfolio_ EXCEPT !.equity_curve_ = <<>>]

\* a portfolio with an open position whose curve was sampled at the time of
\* the next call and at an earlier time
C29_Witness ==
    /\ pc = "portfolio"
    /\ portfolio_.positions_ # EmptyMap
    /\ Len(portfolio_.equity_curve_) = 2
    /\ LastSampledAt(portfolio_, Clock)
    /\ portfolio_.equity_curve_[1].timestamp < Clock

\* signed quantity times price of one instrument, zero if it is not held or
\* has no price
Contribution(p, prices, instrument_key) ==
    IF instrument_key \in DOMAIN p.positions_ /\ instrument_key \in DOMAIN prices
    THEN p.positions_[instrument_key] * prices[instrument_key]
    ELSE 0

\* C30: every sample of the equity curve has total_equity = cash +
\* positions_value, and the sample recordTimestampValue appends at a later
\* time for a price map has the portfolio's cash and, as positions_value, the sum over the
\* held instruments of signed quantity times the given price, an instrument
\* missing from the map contributing zero.
C30_EquityIsCashPlusPositions ==
    pc = "portfolio" =>
        /\ \A k \in DOMAIN portfolio_.equity_curve_ :
              portfolio_.equity_curve_[k].total_equity
                = portfolio_.equity_curve_[k].cash + portfolio_.equity_curve_[k].positions_value
        /\ \A prices \in PriceMaps :
              LET after  == recordTimestampValue(portfolio_, Clock + 1, prices)
                  sample == after.equity_curve_[Len(after.equity_curve_)]
              IN  /\ sample.cash = portfolio_.cash_
                  /\ sample.positions_value
                       = Contribution(portfolio_, prices, "NSE_EQ")
                         + Contribution(portfolio_, prices, "NSE_FO")
                  /\ sample.total_equity = sample.cash + sample.positions_value

\* a portfolio short one instrument and long the other, sampled with a
\* position open
C30_Witness ==
    /\ pc = "portfolio"
    /\ \E a, b \in DOMAIN portfolio_.positions_ :
          portfolio_.positions_[a] < 0 /\ portfolio_.positions_[b] > 0
    /\ \E k \in DOMAIN portfolio_.equity_curve_ :
          portfolio_.equity_curve_[k].positions_value # 0

-----------------------------------------------------------------------------
(* Exits of more than the open quantity *)

\* the exit calls on the open position prev whose quantity exceeds it
Oversized(action, quantity, prev) ==
    \/ action = "ExitLong"  /\ prev > 0 /\ quantity > prev
    \/ action = "ExitShort" /\ prev < 0 /\ quantity > -prev

\* the call closed the open position prev at the price: the position is flat,
\* the cash moved by |prev| * price and the commission, one trade was logged
ClosedWhole(before, after, instrument_key, action, prev, execution_price, commission) ==
    /\ getPositionQuantity(after, instrument_key) = 0
    /\ instrument_key \notin DOMAIN after.positions_
    /\ after.cash_ = before.cash_
                     + (IF action = "ExitLong" THEN Abs(prev) * execution_price
                        ELSE 0 - Abs(prev) * execution_price)
                     - commission
    /\ Len(after.trade_log_) = Len(before.trade_log_) + 1
    /\ after.trade_log_[Len(after.trade_log_)].instrument_key = instrument_key
    /\ after.trade_log_[Len(after.trade_log_)].exit_price = execution_price

\* the cash the exit of the whole position prev needs is not there
CashMissing(before, action, prev, execution_price, commission) ==
    before.cash_ + (IF action = "ExitLong" THEN Abs(prev) * execution_price
                    ELSE 0 - Abs(prev) * execution_price) - commission < 0

\* C31 as stated: every recordTrade call with an exit quantity larger than the
\* open |q| makes the position 0, moves the cash by |q| * price (and the
\* commission) and logs a closed trade.
C31_OversizedExitCloses ==
    CallPossible =>
        \A instrument_key \in Instruments, action \in {"ExitLong", "ExitShort"},
           quantity \in Quantities, execution_price \in Prices, commission \in Commissions :
            LET prev  == getPositionQuantity(portfolio_, instrument_key)
                after == recordTrade(portfolio_, Clock, instrument_key, action, quantity,
                                     execution_price, commission)
            IN  Oversized(action, quantity, prev) =>
                    ClosedWhole(portfolio_, after, instrument_key, action, prev,
                                execution_price, commission)

\* C31 amended: a recordTrade call with an exit quantity larger than the open
\* |q| does what the same call with quantity |q| does: unless the cash cannot
\* pay it (cash + cash change < 0, then nothing changes) the position becomes
\* 0, the cash moves by |q| * price and the commission, and a closed trade is
\* logged.
C31_OversizedExitIsExitOfWhole ==
    CallPossible =>
        \A instrument_key \in Instruments, action \in {"ExitLong", "ExitShort"},
           quantity \in Quantities, execution_price \in Prices, commission \in Commissions :
            LET prev  == getPositionQuantity(portfolio_, instrument_key)
                after == recordTrade(portfolio_, Clock, instrument_key, action, quantity,
                                     execution_price, commission)
            IN  Oversized(action, quantity, prev) =>
                    /\ after = recordTrade(portfolio_, Clock, instrument_key, action,
                                           Abs(prev), execution_price, commission)
                    /\ IF CashMissing(portfolio_, action, prev, execution_price, commission)
                       THEN after = portfolio_
                       ELSE ClosedWhole(portfolio_, after, instrument_key, action, prev,
                                        execution_price, commission)

\* a long position of one share is open and a sale of two is accepted, while
\* a short position in the other instrument could not be covered for cash
C31_Witness ==
    /\ CallPossible
    /\ \E instrument_key \in Instruments, execution_price \in Prices, commission \in Commissions :
          /\ getPositionQuantity(portfolio_, instrument_key) = 1
          /\ Len(recordTrade(portfolio_, Clock, instrument_key, "ExitLong", 2,
                             execution_price, commission).trade_log_)
               = Len(portfolio_.trade_log_) + 1
    /\ \E instrument_key \in Instruments, execution_price \in Prices, commission \in Commissions :
          /\ getPositionQuantity(portfolio_, instrument_key) = -1
          /\ recordTrade(portfolio_, Clock, instrument_key, "ExitShort", 2,
                         execution_price, commission) = portfolio_

-----------------------------------------------------------------------------
(* AndCondition::evaluate and OrCondition::evaluate on arbitrary snapshots: *)
(* a rule with a composite condition is evaluated up to MaxEvaluations      *)
(* times, each time on any snapshot                                         *)

MaxEvaluations == 2

\* composite conditions of one to three children, some nested
Trees ==
    << [type |-> "AND", conditions |-> <<PriceVal("close", ">=", 200)>>],
       [type |-> "OR",  conditions |-> <<PriceInd("close", ">", Sma2)>>],
       [type |-> "AND", conditions |-> <<PriceVal("close", ">=", 200),
                                         PriceInd("close", ">", Sma2)>>],
       [type |-> "OR",  conditions |-> <<PriceVal("close", ">=", 200),
                                         PriceInd("close", ">", Sma2)>>],
       [type |-> "AND", conditions |-> <<PriceVal("close", ">=", 200),
                                         [type |-> "OR",
                                          conditions |-> <<PriceInd("close", ">", Sma2),
                                                           PriceVal("close", "<=", 200)>>]>>],
       [type |-> "OR",  conditions |-> <<[type |-> "AND",
                                          conditions |-> <<PriceVal("close", ">=", 200),
                                                           PriceVal("close", "<=", 200)>>],
                                         PriceInd("close", ">", Sma2)>>],
       [type |-> "AND", conditions |-> <<PriceVal("close", "<=", 200),
                                         PriceVal("close", ">=", 200),
                                         PriceInd("close", ">", Sma2)>>] >>

\* snapshots of one candle, with SMA(2) absent, 1.00 or 2.50
TreeSnapshots ==
    {[current_time          |-> 1,
      current_candle        |-> Candle(1, c),
      indicator_values      |-> values,
      indicator_values_prev |-> EmptyMap] :
        c \in Closes, values \in {EmptyMap} \cup {Put(EmptyMap, Sma2, v) : v \in {<<100, 1>>, <<500, 2>>}}}

TreeInit ==
    /\ pc = "tree"
    /\ \E t \in 1..Len(Trees) :
          strategy_config = OneRuleConfig(RuleConf("tree", "EnterLong", Trees[t]))
    /\ db_candles = <<>>
    /\ initial_capital_ \in {Min(Capitals)}
    /\ strategy_ = createStrategy(strategy_config)
    /\ primary_data_ = <<>>
    /\ indicators_ = EmptyMap
    /\ indicator_results_ = EmptyMap
    /\ portfolio_ = Portfolio(initial_capital_)
    /\ bar = NoBar
    /\ visited = <<>>
    /\ metrics = NoMetrics
    /\ run_result = "none"

\* Rule::evaluate of the composite rule on one snapshot
EvaluateTree ==
    /\ pc = "tree"
    /\ Len(visited) < MaxEvaluations
    /\ \E snapshot \in TreeSnapshots :
          visited' = Append(visited,
                            Visit(Len(visited), snapshot,
                                  Rule_evaluate(strategy_.entry_rules_[1], snapshot),
                                  strategy_.current_position_, portfolio_))
    /\ UNCHANGED <<pc, strategy_config, db_candles, initial_capital_, strategy_, primary_data_,
                   indicators_, indicator_results_, portfolio_, bar, metrics, run_result>>

TreeNext == EvaluateTree

TreeSpec == TreeInit /\ [][TreeNext]_vars

\* the composite conditions of the tree c, itself included
RECURSIVE CompositeNodes(_)
CompositeNodes(c) ==
    IF c.type \in {"AND", "OR"}
    THEN {c} \cup UNION {CompositeNodes(c.conditions[k]) : k \in 1..Len(c.conditions)}
    ELSE {}

\* the children of the composite condition c that are true on the snapshot
TrueChildren(c, snapshot) ==
    {k \in 1..Len(c.conditions) : Condition_evaluate(c.conditions[k], snapshot)}

\* the composite condition c has the value of its children on the snapshot
FollowsChildren(c, snapshot) ==
    IF c.type = "AND"
    THEN Condition_evaluate(c, snapshot) <=> TrueChildren(c, snapshot) = 1..Len(c.conditions)
    ELSE Condition_evaluate(c, snapshot) <=> TrueChildren(c, snapshot) # {}

-----------------------------------------------------------------------------
(* The open-position records *)

\* C33: after every recordTrade call an open-position record exists for an
\* instrument iff the quantity held of it is not zero, and the record's signed
\* entry quantity is the signed quantity held.
C33_RecordMatchesPosition ==
    pc = "portfolio" =>
        \A instrument_key \in Instruments :
            /\ instrument_key \in DOMAIN portfolio_.open_positions_info_
                 <=> getPositionQuantity(portfolio_, instrument_key) # 0
            /\ instrument_key \in DOMAIN portfolio_.open_positions_info_ =>
                 portfolio_.open_positions_info_[instrument_key].entry_quantity
                   = getPositionQuantity(portfolio_, instrument_key)

\* the record exists iff a quantity is held, and has the side of the position
C33_RecordExistsIffOpen ==
    pc = "portfolio" =>
        \A instrument_key \in Instruments :
            /\ instrument_key \in DOMAIN portfolio_.open_positions_info_
                 <=> getPositionQuantity(portfolio_, instrument_key) # 0
            /\ instrument_key \in DOMAIN portfolio_.open_positions_info_ =>
                 Sign(portfolio_.open_positions_info_[instrument_key].entry_quantity)
                   = Sign(getPositionQuantity(portfolio_, instrument_key))

\* the same during a backtest run
C33_RecordMatchesPositionInRun ==
    pc \in {"bar", "metrics", "done"} =>
        \A instrument_key \in DOMAIN portfolio_.positions_ \cup DOMAIN portfolio_.open_positions_info_ :
            /\ instrument_key \in DOMAIN portfolio_.open_positions_info_
            /\ portfolio_.open_positions_info_[instrument_key].entry_quantity
                 = getPositionQuantity(portfolio_, instrument_key)

-----------------------------------------------------------------------------
(* Rejected recordTrade calls *)

\* the calls the portfolio rejects: no quantity, no action, an entry against
\* a position of the other side, an exit without a position of its side, or
\* a cash change the cash cannot pay
Rejected(p, instrument_key, action, quantity, execution_price, commission) ==
    LET prev == getPositionQuantity(p, instrument_key)
    IN  \/ quantity <= 0
        \/ action = "None"
        \/ action = "EnterLong"  /\ prev < 0
        \/ action = "EnterShort" /\ prev > 0
        \/ action = "ExitLong"   /\ prev <= 0
        \/ action = "ExitShort"  /\ prev >= 0
        \/ p.cash_ + TableCash(action, ExecutedQuantity(action, quantity, prev),
                               execution_price, commission) < 0

\* C34: a rejected recordTrade call (quantity <= 0, action None, entry against
\* a position of the other side, exit without a position of its side, or
\* insufficient cash) leaves the whole portfolio as it was: cash, positions,
\* open-position records, trade log, equity curve and execution count; every
\* other call is executed.
C34_RejectedCallChangesNothing ==
    CallPossible =>
        \A instrument_key \in Instruments, action \in SignalAction, quantity \in Quantities,
           execution_price \in Prices, commission \in Commissions :
            LET after == recordTrade(portfolio_, Clock, instrument_key, action, quantity,
                                     execution_price, commission)
            IN  IF Rejected(portfolio_, instrument_key, action, quantity, execution_price,
                            commission)
                THEN after = portfolio_
                ELSE after.execution_count_ = portfolio_.execution_count_ + 1

\* a portfolio with a short position and an equity sample, for which a
\* purchase against the short, though the cash could pay it, and a cover
\* beyond the cash are rejected
C34_Witness ==
    /\ CallPossible
    /\ portfolio_.equity_curve_ # <<>>
    /\ \E instrument_key \in Instruments, execution_price \in Prices, commission \in Commissions :
          /\ getPositionQuantity(portfolio_, instrument_key) < 0
          /\ Rejected(portfolio_, instrument_key, "EnterLong", 1, execution_price, commission)
          /\ portfolio_.cash_ - execution_price - commission >= 0
          /\ Rejected(portfolio_, instrument_key, "ExitShort", 1, Max(Prices), Max(Commissions))

-----------------------------------------------------------------------------
(* Executions and round trips of a run *)

\* C35: in every state of a backtest run the execution count of the portfolio
\* is twice the number of logged trades, plus one if a position is open:
\* accepted executions alternate entry, exit, entry, exit.
C35_ExecutionsAlternate ==
    /\ portfolio_.execution_count_
         = 2 * Len(portfolio_.trade_log_)
           + (IF portfolio_.positions_ # EmptyMap THEN 1 ELSE 0)
    /\ \A k \in DOMAIN visited :
          Executed(k) =>
              IF getPositionQuantity(visited[k].portfolio_before, primary_instrument_key_) = 0
              THEN visited[k].signal \in {"EnterLong", "EnterShort"}
              ELSE visited[k].signal \in {"ExitLong", "ExitShort"}

\* a finished run with one logged trade and a second position open
C35_Witness ==
    /\ pc = "done"
    /\ Len(portfolio_.trade_log_) = 1
    /\ portfolio_.positions_ # EmptyMap
    /\ portfolio_.execution_count_ = 3

\* C36: the round trips of the trade log of a run do not overlap and are in
\* chronological order: each trade is entered before it is exited, and exited
\* before the next trade of the log is entered (candle timestamps strictly
\* increase).
C36_RoundTripsInOrder ==
    /\ \A k \in 1..Len(primary_data_) - 1 :
          primary_data_[k].timestamp < primary_data_[k + 1].timestamp
    /\ \A k \in DOMAIN portfolio_.trade_log_ :
          /\ portfolio_.trade_log_[k].entry_time < portfolio_.trade_log_[k].exit_time
          /\ k < Len(portfolio_.trade_log_) =>
                portfolio_.trade_log_[k].exit_time < portfolio_.trade_log_[k + 1].entry_time

\* a run with two logged trades, the second entered at the bar after the
\* exit of the first
C36_Witness ==
    /\ pc = "done"
    /\ Len(portfolio_.trade_log_) = 2
    /\ \E k \in 1..Len(primary_data_) - 1 :
          /\ portfolio_.trade_log_[1].exit_time = primary_data_[k].timestamp
          /\ portfolio_.trade_log_[2].entry_time = primary_data_[k + 1].timestamp

-----------------------------------------------------------------------------
(* The names of the stored indicators *)

\* the required names createIndicator accepts
AcceptedNames ==
    {n \in strategy_.required_indicator_names_ : createIndicator(n).status = "ok"}

\* createAndCalculateIndicators has stored the indicators of the strategy
IndicatorsStored == EventLoopStarted \/ pc = "crashed"

\* no TA-Lib call of the run has failed
NoCalculationFailed == \A name \in DOMAIN indicators_ : ~CalculateFailed(name)

\* C37: in a run where no indicator calculation failed, the results of every
\* required name that createIndicator accepts are stored under exactly that
\* name, and the snapshot of every visited bar holds a value under it.
C37_StoredUnderRequiredName ==
    (IndicatorsStored /\ NoCalculationFailed) =>
        /\ \A n \in AcceptedNames :
              n \in DOMAIN indicator_results_ /\ n \in UsedIndicators
        /\ \A k \in DOMAIN visited :
              AcceptedNames \subseteq DOMAIN visited[k].snapshot.indicator_values

\* the same for the strategies whose required names are all what getName
\* prints for the indicator created from them
C37_CanonicalNamesStored ==
    (/\ IndicatorsStored
     /\ NoCalculationFailed
     /\ \A n \in AcceptedNames : createIndicator(n).indicator.name_ = n) =>
        /\ AcceptedNames = strategy_.required_indicator_names_
        /\ DOMAIN indicator_results_ = AcceptedNames
        /\ UsedIndicators = AcceptedNames
        /\ \A k \in DOMAIN visited :
              DOMAIN visited[k].snapshot.indicator_values = AcceptedNames

\* a bar was visited with a required and accepted name missing from the
\* snapshot although no calculation failed
C37_MissingAtVisitedBar ==
    /\ NoCalculationFailed
    /\ visited # <<>>
    /\ ~(AcceptedNames \subseteq DOMAIN visited[1].snapshot.indicator_values)

-----------------------------------------------------------------------------
(* Capital-based entries and the cash *)

\* at the k-th visited bar EnterLong was signalled on a flat portfolio under
\* CapitalBased sizing, the allocated capital A is within the cash and buys
\* at least one share
AffordableEntry(k) ==
    /\ visited[k].signal = "EnterLong"
    /\ strategy_.sizing_method_ = "CapitalBased"
    /\ QuantityBefore(k) = 0
    /\ BarCandle(k).close > 0
    /\ AllocatedCapital[1] <= visited[k].portfolio_before.cash_ * AllocatedCapital[2]
    /\ AllocatedCapital[1] >= BarCandle(k).close * AllocatedCapital[2]

\* C38: an EnterLong signal on a flat portfolio under CapitalBased sizing,
\* with the allocated capital A <= cash and floor(A / close) >= 1, is
\* executed: recordTrade does not reject it for insufficient cash.
C38_AffordableEntryAccepted ==
    \A k \in DOMAIN visited : AffordableEntry(k) => Executed(k)

\* the same when the cash also covers the commission of the sized quantity
C38_EntryWithCommissionAccepted ==
    \A k \in DOMAIN visited :
        (AffordableEntry(k) /\ EntryCost(k) <= visited[k].portfolio_before.cash_)
            => Executed(k) /\ QuantityAfter(k) = SizedQuantity(k)

\* an affordable entry was executed
C38_SomeEntryAccepted ==
    \E k \in DOMAIN visited : AffordableEntry(k) /\ Executed(k)

====
